---- MODULE Spec2Model ----
(***************************************************************************)
(* rustboyadvance-ng: the peripheral timing engine of the emulator core.   *)
(* The module models the GPU scanline state machine (core/gpu/mod.rs), the *)
(* DMA controller (core/dma.rs) and the main loop (core/gba.rs): frame(),  *)
(* step() and emulate_peripherals(); the I/O registers (core/ioregs.rs);   *)
(* and of the ARM core the decoder (arm7tdmi/arm), the barrel shifter and  *)
(* the ALU flags (arm7tdmi/alu.rs).                                        *)
(***************************************************************************)
EXTENDS Integers, Sequences, FiniteSets, TLC

VARIABLES
    gpu,            \* Gpu: state, current_scanline, cycles, dispstat
    dmac,           \* DmaController: cycles, channels[0..3]
    mem,            \* SysBus: the halfwords of a small region of work RAM, by address
    ioregs,         \* IoRegs and the plain registers of the devices behind it
    io_writes,      \* write_16 / write_8 calls made on IoRegs
    decoded,        \* the ARM instruction word decoded last, with its formats
    core,           \* Core: the barrel shifter, the CPSR flags, the host's fate
    executed,       \* the latest operation of the ARM core, its inputs and results
    intc,           \* InterruptController: IME, IE, IF
    cpu,            \* Core: the CPSR IRQ-mask bit and the IRQ exception entries
    pc,             \* position of the host inside frame(): idle / draw / vblank
    last,           \* record of the latest operation (what it did, in order)
    vblank_renders, \* backend.render calls since the latest entry into VBlank
    frame_renders,  \* backend.render calls of the current (or latest) frame() call
    spent,          \* per channel: a non-repeat transfer completed, no enabling write since
    extra,          \* per channel: transfers completed while spent
    fed             \* cycles fed to the peripherals since construction

vars == <<gpu, dmac, mem, ioregs, io_writes, decoded, core, executed, intc, cpu, pc, last, vblank_renders, frame_renders, spent, extra, fed>>

---------------------------------------------------------------------------
(* Bounds of the model *)

\* cycles fed in the one-cycle-at-a-time GPU specification (a frame and a bit)
MaxFed == 281200

\* cycles fed in the whole-system specification (a frame and a bit)
MaxSysCycles == 290000

\* the frame specification: frame() is called within the first MaxFrameStart
\* cycles (a frame period) and its loops run while the cycles fed stay within
\* MaxFrameCycles (the latest start and a whole frame after it)
MaxFrameStart == 281200
MaxFrameCycles == 563000

\* cycles fed in the interrupt specification (the visible lines and a bit of
\* the first VBlank)
MaxIrqCycles == 200000

\* cycles the GPU may lag behind its state's duration in the GPU specification
MaxGpuLag == 1232

\* cycle counter of the DMA controller in the DMA specification
MaxDmaCycles == 4

\* highest address a channel may reach in the DMA specification
MaxDmaAddr == 16

\* highest address of the modelled region of work RAM
MemTop == 38

\* cycles one CPU instruction may take in the whole-system specification
CpuCycles == {136, 272}

\* cycles one CPU instruction takes in the interrupt specification
IrqCpuCycles == {272}

\* cycles one Gpu::step may be fed in the GPU specification
GpuCycles == {272, 960, 1232}

\* cycles one DmaController::step may be fed in the DMA specification
DmaCycles == {1, 2}

\* source and destination addresses and word counts written to channel 0 in
\* the transfer specification
XferSrcs == {8}
XferDsts == {12, 28}
XferWordCounts == {1, 3}

\* control words written to channel 0 in the transfer specification: enabled,
\* timing 1 (V-blank), with every destination adjustment, the source
\* adjustments 0..2, both unit sizes and repeat on or off; and 0x9180, the
\* forbidden source adjustment 3
XferCtrls ==
    {36864 + 32 * da + 128 * sa + 512 * r + 1024 * b :
        da \in 0 .. 3, sa \in 0 .. 2, r \in 0 .. 1, b \in 0 .. 1}
    \cup {37248}

\* write_16 / write_8 calls in the register specification
MaxIoWrites == 2

\* addresses and values of the 16-bit writes in the register specification:
\* DISPCNT, DISPSTAT, BG0CNT, BG3CNT, BLDCNT, BLDALPHA, SOUNDCNT_L (backing
\* memory), DMA0CNT_H, TM0CNT_H, TM3CNT_H, IE, IF, WAITCNT, IME; values 0,
\* 0x0009, 0x00FF, 0x1234
IoAddrs16 == {0, 4, 8, 14, 80, 82, 128, 186, 258, 270, 512, 514, 516, 520}
IoValues16 == {0, 9, 255, 4660}

\* addresses and values of the 8-bit writes: both bytes of BLDCNT, SOUNDCNT_L
\* and IE; values 0x56, 0xA5
IoAddrs8 == {80, 81, 128, 129, 512, 513}
IoValues8 == {86, 165}

\* IRQ bits the devices request in the register specification
IoIrqs == {{0, 3, 8}}

\* IRQ bits the timers may raise in one step: none, the timers are left
\* disabled as constructed
TimerIrqs == {{}}

\* control words written to a DMA channel in the DMA specification, all with a
\* fixed source address: 0x0000 disabled; 0x8140 immediate, fixed destination;
\* 0xD140 V-blank, IRQ, fixed destination; 0xA360 H-blank, repeat, destination
\* increment and reload
DmaCtrls == {0, 33088, 53568, 41824}

\* the channels programmed in the DMA specification
DmaWriteChannels == {0, 3}

\* word counts written in the DMA specification
DmaWordCounts == {2}

\* control words written to channel 0 in the interrupt specification:
\* 0xE200 H-blank, IRQ, repeat
IrqDmaCtrls == {57856}

\* DISPSTAT values written in the interrupt specification: 0x0018 (V-blank and
\* H-blank IRQ enable)
DispstatWrites == {24}

\* DISPSTAT values written in the VCount specification: the VCount IRQ enable
\* alone (setting 0) and the setting 1 alone
VCountWrites == {32, 256}

\* IF values written in the interrupt specification (as the set of their 1 bits)
IfWrites == {{0, 1, 8}}

\* IE values written in the interrupt specification (as the set of their 1 bits)
IeWrites == {{0, 1, 8}}

---------------------------------------------------------------------------
(* Bit fields (the bitfield! macro) *)

Pow2(n) == 2 ^ n

\* bit i of v, as 0 or 1
Bit(v, i) == (v \div Pow2(i)) % 2

BitSet(v, i) == Bit(v, i) = 1

\* v with bit i set to the boolean b
SetBit(v, i, b) == v - Bit(v, i) * Pow2(i) + (IF b THEN Pow2(i) ELSE 0)

\* bits hi..lo of v
Field(v, hi, lo) == (v \div Pow2(lo)) % Pow2(hi - lo + 1)

RECURSIVE OrBits(_, _, _)
OrBits(a, b, i) ==
    IF i < 0 THEN 0
    ELSE (IF BitSet(a, i) \/ BitSet(b, i) THEN Pow2(i) ELSE 0) + OrBits(a, b, i - 1)

\* a | b on u16
Or16(a, b) == OrBits(a, b, 15)

---------------------------------------------------------------------------
(* Interrupt sources: the bit numbers of IrqBitmask *)

IRQ_LCD_VBlank == 0
IRQ_LCD_HBlank == 1
IRQ_LCD_VCounterMatch == 2
IRQ_DMA_BASE == 8

---------------------------------------------------------------------------
(* GPU: core/gpu/mod.rs *)

DISPLAY_HEIGHT == 160
CYCLES_HDRAW == 960
CYCLES_HBLANK == 272
CYCLES_SCANLINE == 1232
CYCLES_VBLANK == 83776

\* DisplayStatus bit fields
get_vblank(ds) == BitSet(ds, 0)
get_hblank(ds) == BitSet(ds, 1)
get_vcount(ds) == BitSet(ds, 2)
vblank_irq_enable(ds) == BitSet(ds, 3)
hblank_irq_enable(ds) == BitSet(ds, 4)
vcount_irq_enable(ds) == BitSet(ds, 5)
vcount_setting(ds) == Field(ds, 15, 8)

\* Gpu::new
GpuNew == [state |-> "HDraw", current_scanline |-> 0, cycles |-> 0, dispstat |-> 0]

\* The VCount-match update at the head of Gpu::step: the DISPSTAT value after it
VCountUpdate(g) ==
    IF vcount_setting(g.dispstat) # 0
    THEN SetBit(g.dispstat, 2, vcount_setting(g.dispstat) = g.current_scanline)
    ELSE g.dispstat

\* The VCount IRQ raised at the head of Gpu::step, ds the DISPSTAT after the update
VCountIrq(ds) ==
    IF vcount_irq_enable(ds) /\ get_vcount(ds) THEN {IRQ_LCD_VCounterMatch} ELSE {}

\* The results below hold the new Gpu, the IRQ bits raised and the scanlines
\* rendered (the calls of Gpu::scanline, in order).

\* no timeout: only the cycles and the VCount-match bit change
GpuNoTimeout(g, c, ds) ==
    [gpu |-> [g EXCEPT !.cycles = c, !.dispstat = ds], irqs |-> VCountIrq(ds), rendered |-> <<>>]

\* an HDraw arm that raises the H-blank IRQ whether or not it is enabled
HDrawArmIrqAlways(g, c, ds) ==
    IF c > CYCLES_HDRAW
    THEN LET line == g.current_scanline + 1 IN
         IF line < DISPLAY_HEIGHT
         THEN [gpu |-> [state |-> "HBlank", current_scanline |-> line,
                        cycles |-> c - CYCLES_HDRAW,
                        dispstat |-> SetBit(ds, 1, TRUE)],
               irqs |-> VCountIrq(ds) \cup {IRQ_LCD_HBlank},
               rendered |-> <<line>>]
         ELSE [gpu |-> [state |-> "VBlank", current_scanline |-> line,
                        cycles |-> c - CYCLES_HDRAW,
                        dispstat |-> SetBit(ds, 0, TRUE)],
               irqs |-> VCountIrq(ds) \cup
                        (IF vblank_irq_enable(ds) THEN {IRQ_LCD_VBlank} ELSE {}),
               rendered |-> <<line>>]
    ELSE GpuNoTimeout(g, c, ds)

\* HDraw arm of Gpu::step, c the accumulated cycles, ds the updated DISPSTAT
HDrawArm(g, c, ds) ==
    IF c > CYCLES_HDRAW
    THEN LET line == g.current_scanline + 1 IN
         IF line < DISPLAY_HEIGHT
         THEN [gpu |-> [state |-> "HBlank", current_scanline |-> line,
                        cycles |-> c - CYCLES_HDRAW,
                        dispstat |-> SetBit(ds, 1, TRUE)],
               irqs |-> VCountIrq(ds) \cup
                        (IF hblank_irq_enable(ds) THEN {IRQ_LCD_HBlank} ELSE {}),
               rendered |-> <<line>>]
         ELSE [gpu |-> [state |-> "VBlank", current_scanline |-> line,
                        cycles |-> c - CYCLES_HDRAW,
                        dispstat |-> SetBit(ds, 0, TRUE)],
               irqs |-> VCountIrq(ds) \cup
                        (IF vblank_irq_enable(ds) THEN {IRQ_LCD_VBlank} ELSE {}),
               rendered |-> <<line>>]
    ELSE GpuNoTimeout(g, c, ds)

\* HBlank arm of Gpu::step
HBlankArm(g, c, ds) ==
    IF c > CYCLES_HBLANK
    THEN [gpu |-> [state |-> "HDraw", current_scanline |-> g.current_scanline,
                   cycles |-> c - CYCLES_HBLANK,
                   dispstat |-> SetBit(SetBit(ds, 1, FALSE), 0, FALSE)],
          irqs |-> VCountIrq(ds), rendered |-> <<>>]
    ELSE GpuNoTimeout(g, c, ds)

\* a VBlank arm that never times out
VBlankArmNeverEnds(g, c, ds) == GpuNoTimeout(g, c, ds)

\* a VBlank arm that forgets to reset current_scanline
VBlankArmKeepsLine(g, c, ds) ==
    IF c > CYCLES_VBLANK
    THEN [gpu |-> [state |-> "HDraw", current_scanline |-> g.current_scanline,
                   cycles |-> c - CYCLES_VBLANK,
                   dispstat |-> SetBit(SetBit(ds, 1, FALSE), 0, FALSE)],
          irqs |-> VCountIrq(ds), rendered |-> <<g.current_scanline>>]
    ELSE GpuNoTimeout(g, c, ds)

\* VBlank arm of Gpu::step
VBlankArm(g, c, ds) ==
    IF c > CYCLES_VBLANK
    THEN [gpu |-> [state |-> "HDraw", current_scanline |-> 0,
                   cycles |-> c - CYCLES_VBLANK,
                   dispstat |-> SetBit(SetBit(ds, 1, FALSE), 0, FALSE)],
          irqs |-> VCountIrq(ds), rendered |-> <<0>>]
    ELSE GpuNoTimeout(g, c, ds)

\* Gpu::step
GpuStep(g, cycles) ==
    LET c == g.cycles + cycles
        ds == VCountUpdate(g)
    IN  CASE g.state = "HDraw" -> HDrawArm(g, c, ds)
          [] g.state = "HBlank" -> HBlankArm(g, c, ds)
          [] g.state = "VBlank" -> VBlankArm(g, c, ds)

---------------------------------------------------------------------------
(* System bus (core/sysbus.rs): a region of work RAM as halfwords at the even *)
(* addresses 0 .. MemTop; an access outside it is an access to an unmapped    *)
(* address, which reads 0 and ignores the write                               *)

MemAddrs == {a \in 0 .. MemTop : a % 2 = 0}

\* the work RAM after construction
MemNew == [a \in MemAddrs |-> 0]

\* SysBus::read_16
sb_read_16(m, addr) == IF addr \in MemAddrs THEN m[addr] ELSE 0

\* SysBus::write_16
sb_write_16(m, addr, value) == IF addr \in MemAddrs THEN [m EXCEPT ![addr] = value] ELSE m

\* SysBus::read_32: little endian, the low halfword at addr
sb_read_32(m, addr) == sb_read_16(m, addr) + 65536 * sb_read_16(m, addr + 2)

\* SysBus::write_32
sb_write_32(m, addr, value) ==
    sb_write_16(sb_write_16(m, addr, value % 65536), addr + 2, value \div 65536)

---------------------------------------------------------------------------
(* DMA controller: core/dma.rs *)

Channels == 0 .. 3

\* DmaChannelCtrl bit fields
dst_adj(ctrl) == Field(ctrl, 6, 5)
src_adj(ctrl) == Field(ctrl, 8, 7)
repeat(ctrl) == BitSet(ctrl, 9)
is_32bit(ctrl) == BitSet(ctrl, 10)
timing(ctrl) == Field(ctrl, 13, 12)
is_triggering_irq(ctrl) == BitSet(ctrl, 14)
is_enabled(ctrl) == BitSet(ctrl, 15)
set_enabled(ctrl, b) == SetBit(ctrl, 15, b)

\* DmaChannel::new (the other fields are Default)
DmaChannelNew(id) ==
    [id |-> id, src |-> 0, dst |-> 0, wc |-> 0, ctrl |-> 0, cycles |-> 0, start_cycles |-> 0]

\* DmaController::new
DmaControllerNew == [channels |-> [ch \in Channels |-> DmaChannelNew(ch)], cycles |-> 0]

\* DmaChannel::get_irq
get_irq(c) == c.id + IRQ_DMA_BASE

\* The source address after one unit of DmaChannel::xfer (adjustment 3 panics
\* before it is used)
AdjustSrc(c, word_size) ==
    CASE src_adj(c.ctrl) = 0 -> c.src + word_size
      [] src_adj(c.ctrl) = 1 -> c.src - word_size
      [] OTHER -> c.src

\* a destination adjustment that takes Decrement for Increment
AdjustDstNeverDecrements(c, word_size) ==
    CASE dst_adj(c.ctrl) \in {0, 1, 3} -> c.dst + word_size
      [] dst_adj(c.ctrl) = 2 -> c.dst

\* The destination address after one unit of DmaChannel::xfer
AdjustDst(c, word_size) ==
    CASE dst_adj(c.ctrl) \in {0, 3} -> c.dst + word_size
      [] dst_adj(c.ctrl) = 1 -> c.dst - word_size
      [] dst_adj(c.ctrl) = 2 -> c.dst

\* The transfer loop of DmaChannel::xfer from unit `word` on: the channel after
\* the remaining units, its address registers adjusted per unit, and the memory
\* m after their writes. panicked is set by the forbidden source adjustment.
\* The addresses written by the model stay inside the 28-bit address space, so
\* that the u32 arithmetic never wraps.
RECURSIVE XferUnits(_, _, _, _)
RECURSIVE XferAdjust(_, _, _, _)

\* lines 54-61: the memory after the copy of one unit
XferCopy(c, m, word_size) ==
    IF word_size = 4
    THEN sb_write_32(m, c.dst, sb_read_32(m, c.src))
    ELSE sb_write_16(m, c.dst, sb_read_16(m, c.src))

\* lines 62-73: the address adjustments after the copy that left the memory
\* m1, and the units that follow
XferAdjust(c, m1, word, word_size) ==
    IF src_adj(c.ctrl) = 3 THEN [ch |-> c, mem |-> m1, panicked |-> TRUE]
    ELSE XferUnits([c EXCEPT !.src = AdjustSrc(c, word_size),
                             !.dst = AdjustDst(c, word_size)],
                   m1, word + 1, word_size)

XferUnits(c, m, word, word_size) ==
    IF word >= c.wc THEN [ch |-> c, mem |-> m, panicked |-> FALSE]
    ELSE XferAdjust(c, XferCopy(c, m, word_size), word, word_size)

\* the completion of a transfer that leaves a non-repeat channel enabled
XferCompleteKeepsEnabled(c, dst_rld) ==
    IF repeat(c.ctrl)
    THEN [c EXCEPT !.start_cycles = c.cycles,
                   !.dst = IF dst_adj(c.ctrl) = 3 THEN dst_rld ELSE c.dst]
    ELSE c

\* the completion of a transfer that never reloads the destination register
XferCompleteNoReload(c, dst_rld) ==
    IF repeat(c.ctrl)
    THEN [c EXCEPT !.start_cycles = c.cycles]
    ELSE [c EXCEPT !.ctrl = set_enabled(c.ctrl, FALSE)]

\* The completion of DmaChannel::xfer: rearm a repeat channel, disable the others
XferComplete(c, dst_rld) ==
    IF repeat(c.ctrl)
    THEN [c EXCEPT !.start_cycles = c.cycles,
                   !.dst = IF dst_adj(c.ctrl) = 3 THEN dst_rld ELSE c.dst]
    ELSE [c EXCEPT !.ctrl = set_enabled(c.ctrl, FALSE)]

\* an IRQ raised by every completed transfer
XferIrqAlways(c) == {get_irq(c)}

\* The IRQ bits a completed transfer adds (lines 75-77)
XferIrq(c) == IF is_triggering_irq(c.ctrl) THEN {get_irq(c)} ELSE {}

\* DmaChannel::xfer: the channel and the memory afterwards, the IRQ bits added,
\* the number of transfers completed (1) and whether the host panicked inside
\* the loop
\* lines 75-87: what follows the loop of DmaChannel::xfer, r being the result
\* of the loop and dst_rld the destination register at entry
XferEnd(c, r, dst_rld) ==
    IF r.panicked
    THEN [ch |-> r.ch, mem |-> r.mem, irqs |-> {}, done |-> 0, panicked |-> TRUE]
    ELSE [ch |-> XferComplete(r.ch, dst_rld), mem |-> r.mem,
          irqs |-> XferIrq(c), done |-> 1, panicked |-> FALSE]

Xfer(c, m) ==
    XferEnd(c, XferUnits(c, m, 0, IF is_32bit(c.ctrl) THEN 4 ELSE 2), c.dst)

\* a channel left alone by a trigger
NoXfer(c, m) == [ch |-> c, mem |-> m, irqs |-> {}, done |-> 0, panicked |-> FALSE]

\* DmaChannel::update
Update(c, m, cycles) ==
    IF is_enabled(c.ctrl) /\ c.start_cycles = 0 /\ cycles > c.start_cycles + 2
    THEN Xfer(c, m)
    ELSE NoXfer(c, m)

\* The body of the `for ch in 0..4` loop of DmaController::step ("step"),
\* notify_vblank ("vblank") and notify_hblank ("hblank") for one channel
ChannelBody(c, m, trigger, cycles) ==
    IF trigger = "step" THEN Update(c, m, cycles)
    ELSE IF is_enabled(c.ctrl) /\ timing(c.ctrl) = (IF trigger = "vblank" THEN 1 ELSE 2)
         THEN Xfer(c, m)
         ELSE NoXfer(c, m)

\* the state acc of a loop over the channels after channel ch gave the result r
ChannelDone(acc, ch, r) ==
    CHOOSE after \in
        {[dmac |-> [acc.dmac EXCEPT !.channels[ch] = x.ch],
          mem |-> x.mem,
          irqs |-> acc.irqs \cup x.irqs,
          done |-> [acc.done EXCEPT ![ch] = @ + x.done],
          panicked |-> x.panicked] : x \in {r}} : TRUE

\* The `for ch in 0..4` loops of the controller from channel ch on, in order,
\* ended by a panic. The result holds the controller, the memory, the IRQ bits
\* added, the transfers completed per channel and the panic flag.
RECURSIVE ForChannels(_, _, _, _)
ForChannels(acc, ch, trigger, cycles) ==
    IF ch > 3 \/ acc.panicked THEN acc
    ELSE CHOOSE r \in
             {ForChannels(next, ch + 1, trigger, cycles) : next \in
                 {ChannelDone(acc, ch, ChannelBody(acc.dmac.channels[ch], acc.mem,
                                                   trigger, cycles))}} : TRUE

\* the state of such a loop before its first channel
DmaStart(d, m) ==
    [dmac |-> d, mem |-> m, irqs |-> {}, done |-> [ch \in Channels |-> 0], panicked |-> FALSE]

\* DmaController::step
DmacStep(d, m, cycles) ==
    LET d1 == [d EXCEPT !.cycles = d.cycles + cycles]
    IN  ForChannels(DmaStart(d1, m), 0, "step", d1.cycles)

\* DmaController::notify_vblank
notify_vblank(d, m) == ForChannels(DmaStart(d, m), 0, "vblank", 0)

\* DmaController::notify_hblank
notify_hblank(d, m) == ForChannels(DmaStart(d, m), 0, "hblank", 0)

\* DmaController::write_src_low and write_src_high with the halves of value
write_src(d, ch, value) == [d EXCEPT !.channels[ch].src = value]

\* DmaController::write_dst_low and write_dst_high with the halves of value
write_dst(d, ch, value) == [d EXCEPT !.channels[ch].dst = value]

\* DmaController::write_dma_ctrl
write_dma_ctrl(d, ch, value) ==
    [d EXCEPT !.channels[ch].start_cycles = IF is_enabled(value) THEN d.cycles ELSE @,
              !.channels[ch].ctrl = value]

\* DmaController::write_word_count
write_word_count(d, ch, value) == [d EXCEPT !.channels[ch].wc = value]

---------------------------------------------------------------------------
(* Interrupt controller and CPU (core/interrupt.rs, core/arm7tdmi): an      *)
(* IrqBitmask is modelled as the set of its bits that are 1                 *)

\* InterruptController::new
IntcNew == [interrupt_master_enable |-> FALSE, interrupt_enable |-> {}, interrupt_flags |-> {}]

\* InterruptController::request_irqs
request_irqs(ic, irqs) == [ic EXCEPT !.interrupt_flags = @ \cup irqs]

\* InterruptController::irq_pending
irq_pending(ic) ==
    ic.interrupt_master_enable /\ (ic.interrupt_enable \cap ic.interrupt_flags) # {}

\* Core::exception(Exception::Irq): IRQ mode is entered with IRQs masked
exception_irq(c) == [c EXCEPT !.irq_disabled = TRUE]

\* Timers::step: the timers raise the IRQ bits tirqs (an input of the model)
TimersStep(tirqs) == tirqs

---------------------------------------------------------------------------
(* I/O registers: core/ioregs.rs. Addresses are offsets from IO_BASE, as the  *)
(* bus hands them to IoRegs. The model has the arms of the registers below;   *)
(* every other address of the model's inputs falls to the backing memory.     *)

REG_DISPCNT == 0
REG_DISPSTAT == 4
REG_VCOUNT == 6
REG_BG0CNT == 8
REG_BG3CNT == 14
REG_BLDCNT == 80
REG_BLDALPHA == 82
REG_SOUNDCNT_L == 128
REG_DMA0SAD == 176
REG_DMA0CNT_H == 186
REG_DMA3CNT_H == 222
REG_TM0CNT_H == 258
REG_TM3CNT_H == 270
REG_IE == 512
REG_IF == 514
REG_WAITCNT == 516
REG_IME == 520

\* the bits of the u16 v that are 1
BitsOf(v) == {i \in 0 .. 15 : BitSet(v, i)}

\* the u16 whose 1 bits are those of S, from bit i down
RECURSIVE BitsValue(_, _)
BitsValue(S, i) ==
    IF i < 0 THEN 0 ELSE (IF i \in S THEN Pow2(i) ELSE 0) + BitsValue(S, i - 1)

\* v << n on u16
Shl16(v, n) == (v * Pow2(n)) % 65536

\* the bytes of the backing memory the model keeps (BoxedMemory of 0x400 bytes)
IoMemBytes == {REG_SOUNDCNT_L, REG_SOUNDCNT_L + 1, REG_SOUNDCNT_L + 2,
               REG_BLDCNT + 1, REG_BLDCNT + 2, REG_IE + 1, REG_IE + 2}

\* BoxedMemory::read_16, little endian
mem_read_16(bytes, addr) ==
    (IF addr \in IoMemBytes THEN bytes[addr] ELSE 0)
    + 256 * (IF addr + 1 \in IoMemBytes THEN bytes[addr + 1] ELSE 0)

\* BoxedMemory::write_16, little endian
mem_write_16(bytes, addr, value) ==
    [a \in IoMemBytes |-> IF a = addr THEN value % 256
                          ELSE IF a = addr + 1 THEN value \div 256
                          ELSE bytes[a]]

\* IoRegs::new, with the registers of Gpu::new and of the timers behind it
IoRegsNew ==
    [dispcnt |-> 128, bgcnt |-> [i \in 0 .. 3 |-> 0], bldcnt |-> 0, bldalpha |-> 0,
     timer_ctl |-> [i \in 0 .. 3 |-> 0], waitcnt |-> 0,
     mem |-> [a \in IoMemBytes |-> 0]]

\* the devices a register access works on
IoState(g, ic, regs) == [gpu |-> g, intc |-> ic, regs |-> regs, panicked |-> FALSE]

\* IoRegs::read_16
read_16(st, addr) ==
    CASE addr = REG_DISPCNT -> st.regs.dispcnt
      [] addr = REG_DISPSTAT -> st.gpu.dispstat
      [] addr = REG_VCOUNT -> st.gpu.current_scanline
      [] addr \in {REG_BG0CNT + 2 * i : i \in 0 .. 3} -> st.regs.bgcnt[(addr - REG_BG0CNT) \div 2]
      [] addr = REG_BLDCNT -> st.regs.bldcnt
      [] addr = REG_BLDALPHA -> st.regs.bldalpha
      [] addr = REG_IME -> IF st.intc.interrupt_master_enable THEN 1 ELSE 0
      [] addr = REG_IE -> BitsValue(st.intc.interrupt_enable, 15)
      [] addr = REG_IF -> BitsValue(st.intc.interrupt_flags, 15)
      [] addr \in {REG_TM0CNT_H + 4 * i : i \in 0 .. 3} ->
            st.regs.timer_ctl[(addr - REG_TM0CNT_H) \div 4]
      [] addr = REG_WAITCNT -> st.regs.waitcnt
      [] OTHER -> mem_read_16(st.regs.mem, addr)

\* IoRegs::read_8
read_8(st, addr) == read_16(st, addr) % 256

\* a write to IF that stores the value
WriteIFStores(flags, value) == BitsOf(value)

\* the REG_IF arm of write_16: interrupt_flags &= !value
WriteIF(flags, value) == flags \ BitsOf(value)

\* IoRegs::write_16. The arms of the DMA registers take a second borrow_mut of
\* the RefCell that write_16 has borrowed at its head: the host panics.
write_16(st, addr, value) ==
    CASE addr = REG_DISPCNT -> [st EXCEPT !.regs.dispcnt = Or16(@, value)]
      [] addr = REG_DISPSTAT -> [st EXCEPT !.gpu.dispstat = Or16(@, value)]
      [] addr \in {REG_BG0CNT + 2 * i : i \in 0 .. 3} ->
            [st EXCEPT !.regs.bgcnt[(addr - REG_BG0CNT) \div 2] = Or16(@, value)]
      [] addr = REG_BLDCNT -> [st EXCEPT !.regs.bldcnt = value]
      [] addr = REG_BLDALPHA -> [st EXCEPT !.regs.bldalpha = value]
      [] addr = REG_IME -> [st EXCEPT !.intc.interrupt_master_enable = (value # 0)]
      [] addr = REG_IE -> [st EXCEPT !.intc.interrupt_enable = BitsOf(value)]
      [] addr = REG_IF -> [st EXCEPT !.intc.interrupt_flags = WriteIF(@, value)]
      [] addr \in {REG_TM0CNT_H + 4 * i : i \in 0 .. 3} ->
            [st EXCEPT !.regs.timer_ctl[(addr - REG_TM0CNT_H) \div 4] = value]
      [] addr \in {a \in REG_DMA0SAD .. REG_DMA3CNT_H : a % 2 = 0} ->
            [st EXCEPT !.panicked = TRUE]
      [] addr = REG_WAITCNT -> [st EXCEPT !.regs.waitcnt = value]
      [] OTHER -> [st EXCEPT !.regs.mem = mem_write_16(@, addr, value)]

\* IoRegs::write_8
write_8(st, addr, value) ==
    IF addr % 2 # 0
    THEN LET a == addr - 1
             t == read_16(st, a)
             upper == value
             lower == t % 256
         IN  write_16(st, a, Or16(Shl16(upper, 8), lower))
    ELSE LET t == read_16(st, addr)
             upper == Shl16(t, 8)
             lower == value
         IN  write_16(st, addr, Or16(Shl16(upper, 8), lower))

---------------------------------------------------------------------------
(* Main loop: core/gba.rs *)

\* The stages of emulate_peripherals work on a record w: the devices, the CPU,
\* the local IrqBitmask irqs, the transfers completed per channel, the panic
\* flag and the order in which the devices were advanced.

PeripheralsStart(g, d, m, ic, c) ==
    [gpu |-> g, dmac |-> d, mem |-> m, intc |-> ic, cpu |-> c, irqs |-> {},
     done |-> [ch \in Channels |-> 0], panicked |-> FALSE,
     folded |-> FALSE, irq_entered |-> FALSE, order |-> <<>>, rendered |-> <<>>]

\* lines 92-95: timers.step
StageTimers(w, tirqs) ==
    [w EXCEPT !.irqs = @ \cup TimersStep(tirqs), !.order = Append(@, "timers")]

\* lines 97-102: gpu.step
StageGpu(w, cycles) ==
    LET r == GpuStep(w.gpu, cycles)
    IN  [w EXCEPT !.gpu = r.gpu, !.irqs = @ \cup r.irqs, !.order = Append(@, "gpu"),
                  !.rendered = r.rendered]

\* the result r of a loop over the DMA channels merged into w
MergeDma(w, r, tag) ==
    CHOOSE merged \in
        {[w EXCEPT !.dmac = x.dmac, !.mem = x.mem, !.irqs = @ \cup x.irqs,
                   !.done = [ch \in Channels |-> w.done[ch] + x.done[ch]],
                   !.panicked = x.panicked, !.order = Append(@, tag)] : x \in {r}} : TRUE

\* lines 103-117: the hblank / vblank notification of the DMA controller when
\* the GPU state changed from prev_state
StageNotify(w, prev_state) ==
    IF w.gpu.state # prev_state
    THEN CASE w.gpu.state = "HBlank" -> MergeDma(w, notify_hblank(w.dmac, w.mem), "notify_hblank")
           [] w.gpu.state = "VBlank" -> MergeDma(w, notify_vblank(w.dmac, w.mem), "notify_vblank")
           [] OTHER -> w
    ELSE w

\* lines 118-121: dmac.step
StageDma(w, cycles) ==
    IF w.panicked THEN w ELSE MergeDma(w, DmacStep(w.dmac, w.mem, cycles), "dma")

\* lines 123-128: the IRQ bits are requested and the exception entered
StageIrq(w) ==
    IF w.panicked \/ w.cpu.irq_disabled THEN w
    ELSE LET ic == request_irqs(w.intc, w.irqs) IN
         IF irq_pending(ic)
         THEN [w EXCEPT !.intc = ic, !.folded = TRUE, !.irq_entered = TRUE,
                        !.cpu = exception_irq(w.cpu),
                        !.order = @ \o <<"irq_check", "irq_exception">>]
         ELSE [w EXCEPT !.intc = ic, !.folded = TRUE, !.order = Append(@, "irq_check")]

\* an emulate_peripherals that looks for a pending IRQ before the DMA step
EmulatePeripheralsIrqBeforeDma(g, d, m, ic, c, cycles, tirqs) ==
    LET w0 == PeripheralsStart(g, d, m, ic, c)
        w1 == StageTimers(w0, tirqs)
        w2 == StageGpu(w1, cycles)
        w3 == StageNotify(w2, g.state)
        w4 == StageIrq(w3)
    IN  StageDma(w4, cycles)

\* GameBoyAdvance::emulate_peripherals: the stages in order, each applied to
\* the one result of the stage before it
EmulatePeripherals(g, d, m, ic, c, cycles, tirqs) ==
    CHOOSE w5 \in
        {StageIrq(w4) : w4 \in
            {StageDma(w3, cycles) : w3 \in
                {StageNotify(w2, g.state) : w2 \in
                    {StageGpu(w1, cycles) : w1 \in
                        {StageTimers(PeripheralsStart(g, d, m, ic, c), tirqs)}}}}} : TRUE

---------------------------------------------------------------------------
(* ARM decoder: arm7tdmi/arm/mod.rs (ArmInstruction::decode) and            *)
(* arm7tdmi/arm/lut.rs (ARM_LUT). A 32-bit word is the set of its bits that *)
(* are 1, so that `mask & raw == expected` is (mask \cap raw) = expected.   *)

\* the word with the upper halfword hi and the lower halfword lo
Word32(hi, lo) == {i \in 0 .. 15 : BitSet(lo, i)} \cup {i + 16 : i \in {j \in 0 .. 15 : BitSet(hi, j)}}

\* one arm of an if-else chain: (mask & raw) == expected selects fmt
Row(fmt, mask, expected) == [fmt |-> fmt, mask |-> mask, expected |-> expected]

\* the format of the first arm of rows, from arm k on, that the word matches
RECURSIVE FirstMatch(_, _, _)
FirstMatch(rows, raw, k) ==
    IF k > Len(rows) THEN "Undefined"
    ELSE IF (rows[k].mask \cap raw) = rows[k].expected THEN rows[k].fmt
    ELSE FirstMatch(rows, raw, k + 1)

\* a decode chain that tests the halfword transfers before the multiplies
DecodeRowsHalfwordFirst ==
    << Row("BranchExchange", Word32(\h0fff, \hfff0), Word32(\h012f, \hff10)),
       Row("BranchLink", Word32(\h0e00, \h0000), Word32(\h0a00, \h0000)),
       Row("Undefined", Word32(\he000, \h0010), Word32(\h0600, \h0000)),
       Row("HalfwordDataTransferRegOffset", Word32(\h0e40, \h0f90), Word32(\h0000, \h0090)),
       Row("HalfwordDataTransferImmediateOffset", Word32(\h0e40, \h0090), Word32(\h0040, \h0090)),
       Row("SingleDataSwap", Word32(\h0fb0, \h0ff0), Word32(\h0100, \h0090)),
       Row("Multiply", Word32(\h0fc0, \h00f0), Word32(\h0000, \h0090)),
       Row("MultiplyLong", Word32(\h0f80, \h00f0), Word32(\h0080, \h0090)),
       Row("MoveFromStatus", Word32(\h0fbf, \h0fff), Word32(\h010f, \h0000)),
       Row("MoveToStatus", Word32(\h0fbf, \hfff0), Word32(\h0129, \hf000)),
       Row("MoveToFlags", Word32(\h0dbf, \hf000), Word32(\h0128, \hf000)),
       Row("SingleDataTransfer", Word32(\h0c00, \h0000), Word32(\h0400, \h0000)),
       Row("BlockDataTransfer", Word32(\h0e00, \h0000), Word32(\h0800, \h0000)),
       Row("SoftwareInterrupt", Word32(\h0f00, \h0000), Word32(\h0f00, \h0000)),
       Row("DataProcessing", Word32(\h0c00, \h0000), Word32(\h0000, \h0000)) >>

\* the if-else chain of ArmInstruction::decode, in its order
DecodeRows ==
    << Row("BranchExchange", Word32(\h0fff, \hfff0), Word32(\h012f, \hff10)),
       Row("BranchLink", Word32(\h0e00, \h0000), Word32(\h0a00, \h0000)),
       Row("Undefined", Word32(\he000, \h0010), Word32(\h0600, \h0000)),
       Row("SingleDataSwap", Word32(\h0fb0, \h0ff0), Word32(\h0100, \h0090)),
       Row("Multiply", Word32(\h0fc0, \h00f0), Word32(\h0000, \h0090)),
       Row("MultiplyLong", Word32(\h0f80, \h00f0), Word32(\h0080, \h0090)),
       Row("MoveFromStatus", Word32(\h0fbf, \h0fff), Word32(\h010f, \h0000)),
       Row("MoveToStatus", Word32(\h0fbf, \hfff0), Word32(\h0129, \hf000)),
       Row("MoveToFlags", Word32(\h0dbf, \hf000), Word32(\h0128, \hf000)),
       Row("SingleDataTransfer", Word32(\h0c00, \h0000), Word32(\h0400, \h0000)),
       Row("HalfwordDataTransferRegOffset", Word32(\h0e40, \h0f90), Word32(\h0000, \h0090)),
       Row("HalfwordDataTransferImmediateOffset", Word32(\h0e40, \h0090), Word32(\h0040, \h0090)),
       Row("BlockDataTransfer", Word32(\h0e00, \h0000), Word32(\h0800, \h0000)),
       Row("SoftwareInterrupt", Word32(\h0f00, \h0000), Word32(\h0f00, \h0000)),
       Row("DataProcessing", Word32(\h0c00, \h0000), Word32(\h0000, \h0000)) >>

\* ArmInstruction::decode: the format of the word
decode(raw) == FirstMatch(DecodeRows, raw, 1)

\* the if-else chain of `impl From<u32> for ArmFormat` (lut.rs), in its order
LutRows ==
    << Row("BX", Word32(\h0ff0, \h00f0), Word32(\h0120, \h0010)),
       Row("B_BL", Word32(\h0e00, \h0000), Word32(\h0a00, \h0000)),
       Row("SWP", Word32(\h0fb0, \h00f0), Word32(\h0100, \h0090)),
       Row("MUL_MLA", Word32(\h0fc0, \h00f0), Word32(\h0000, \h0090)),
       Row("MULL_MLAL", Word32(\h0f80, \h00f0), Word32(\h0000, \h0090)),
       Row("MRS", Word32(\h0fb0, \h00f0), Word32(\h0100, \h0000)),
       Row("MSR_REG", Word32(\h0fb0, \h00f0), Word32(\h0120, \h0000)),
       Row("MSR_FLAGS", Word32(\h0db0, \h0000), Word32(\h0120, \h0000)),
       Row("LDR_STR", Word32(\h0c00, \h0000), Word32(\h0400, \h0000)),
       Row("LDR_STR_HS_REG", Word32(\h0e40, \h0090), Word32(\h0000, \h0090)),
       Row("LDR_STR_HS_IMM", Word32(\h0e40, \h0090), Word32(\h0000, \h0090)),
       Row("LDM_STM", Word32(\h0e00, \h0000), Word32(\h0800, \h0000)),
       Row("SWI", Word32(\h0f00, \h0000), Word32(\h0f00, \h0000)),
       Row("DP", Word32(\h0c00, \h0000), Word32(\h0000, \h0000)) >>

\* ArmFormat::from(u32)
ArmFormatFrom(i) == FirstMatch(LutRows, i, 1)

\* arm_insn_hash: ((insn >> 16) & 0xff0) | ((insn >> 4) & 0x00f), a 12-bit index
arm_insn_hash(insn) ==
    {b - 16 : b \in insn \cap (20 .. 27)} \cup {b - 4 : b \in insn \cap (4 .. 7)}

\* the canonical word of a table index: ((i & 0xff0) << 16) | ((i & 0x00f) << 4)
LutWord(i) == {b + 16 : b \in i \cap (4 .. 11)} \cup {b + 4 : b \in i \cap (0 .. 3)}

\* ARM_LUT: the format of each of the 4096 indices
ARM_LUT == [i \in SUBSET (0 .. 11) |-> ArmFormatFrom(LutWord(i))]

\* instruction words decoded in the decoder specification: every value of the
\* 12 hashed bits (27..20 and 7..4), with bits 19..8 one of 0x000, 0xFFF,
\* 0xF00, 0x9F0, 0x8F0, 0x001, and with bits 31..28 and 3..0 either 0x0 and 0x0,
\* 0xE and 0x0, or 0xE and 0xE
DecodeMids ==
    {Word32(0, 0), Word32(\h000f, \hff00), Word32(\h000f, 0), Word32(\h0009, \hf000),
     Word32(\h0008, \hf000), Word32(0, \h0100)}
DecodeEnds == {Word32(0, 0), Word32(\he000, 0), Word32(\he000, \h000e)}
DecodeWords ==
    {h \cup m \cup e : h \in SUBSET ((20 .. 27) \cup (4 .. 7)), m \in DecodeMids, e \in DecodeEnds}

\* no instruction has been decoded yet
DecodedNone == [raw |-> {}, fmt |-> "none", lut_fmt |-> "none"]

---------------------------------------------------------------------------
(* ARM core: arm7tdmi/alu.rs (BarrelShifter, Core::register_shift,          *)
(* Core::get_barrel_shifted_value, Core::alu_flags). An i32 is an integer   *)
(* of -2^31 .. 2^31 - 1; the shifts work on the set of its bits that are 1. *)

\* bit i (0 .. 31) of the i32 v
I32Bit(v, i) == IF i = 31 THEN v < 0 ELSE (v \div Pow2(i)) % 2 = 1

\* the bits of the i32 v that are 1 (v as u32)
BitsOfI32(v) == {i \in 0 .. 31 : I32Bit(v, i)}

\* the sum of 2^j for the j of S in 0 .. i
RECURSIVE SumPow2(_, _)
SumPow2(S, i) ==
    IF i < 0 THEN 0
    ELSE (IF i \in S THEN Pow2(i) ELSE 0) + SumPow2(S, i - 1)

\* the i32 whose 1 bits are S (u32 as i32)
I32OfBits(S) ==
    IF 31 \in S THEN (SumPow2(S, 30) - 2147483647) - 1 ELSE SumPow2(S, 30)

\* u32 << n and i32 << n for n < 32: the bits shifted out are lost
Shl32(W, n) == {i + n : i \in {j \in W : j + n <= 31}}

\* u32 >> n for n < 32
Lsr32(W, n) == {i - n : i \in {j \in W : j >= n}}

\* i32 >> n for n < 32: the sign bit fills the upper bits
Sar32(W, n) == Lsr32(W, n) \cup (IF 31 \in W THEN (32 - n) .. 31 ELSE {})

\* i32::wrapping_shr: the amount is taken modulo 32
wrapping_shr(W, n) == Sar32(W, n % 32)

\* i32::rotate_right
rotate_right(W, n) == {(i + 32 - (n % 32)) % 32 : i \in W}

\* the result of a shift that leaves carry_out as it was
ShiftKeep(bs, val) == [carry_out |-> bs.carry_out, result |-> val]

\* the result of a shift that sets carry_out
ShiftSet(carry_out, val) == [carry_out |-> carry_out, result |-> val]

\* an LSL whose carry for 1 .. 31 is the bit below the right one
BarrelLSLCarryOffByOne(bs, val, amount, carry_in) ==
    IF amount = 0 THEN ShiftSet(carry_in, val)
    ELSE IF amount < 32
         THEN ShiftSet(0 \in wrapping_shr(BitsOfI32(val), 31 - amount),
                       I32OfBits(Shl32(BitsOfI32(val), amount)))
    ELSE IF amount = 32 THEN ShiftSet(0 \in BitsOfI32(val), 0)
    ELSE ShiftSet(FALSE, 0)

\* barrel_shift_op, BarrelShiftOpCode::LSL (lines 125-142)
BarrelLSL(bs, val, amount, carry_in) ==
    IF amount = 0 THEN ShiftSet(carry_in, val)
    ELSE IF amount < 32
         THEN ShiftSet(0 \in wrapping_shr(BitsOfI32(val), 32 - amount),
                       I32OfBits(Shl32(BitsOfI32(val), amount)))
    ELSE IF amount = 32 THEN ShiftSet(0 \in BitsOfI32(val), 0)
    ELSE ShiftSet(FALSE, 0)

\* barrel_shift_op, BarrelShiftOpCode::LSR (lines 143-160)
BarrelLSR(bs, val, amount, immediate) ==
    IF amount \in {0, 32}
    THEN IF immediate THEN ShiftSet(31 \in BitsOfI32(val), 0) ELSE ShiftKeep(bs, val)
    ELSE IF amount < 32
         THEN ShiftSet(0 \in Sar32(BitsOfI32(val), amount - 1),
                       I32OfBits(Lsr32(BitsOfI32(val), amount)))
    ELSE ShiftSet(FALSE, 0)

\* barrel_shift_op, BarrelShiftOpCode::ASR (lines 161-188)
BarrelASR(bs, val, amount, immediate) ==
    IF amount = 0
    THEN IF immediate
         THEN ShiftSet(31 \in BitsOfI32(val), IF 31 \in BitsOfI32(val) THEN -1 ELSE 0)
         ELSE ShiftKeep(bs, val)
    ELSE IF amount < 32
         THEN ShiftSet(0 \in wrapping_shr(BitsOfI32(val), amount - 1),
                       I32OfBits(wrapping_shr(BitsOfI32(val), amount)))
    ELSE ShiftSet(31 \in BitsOfI32(val), IF 31 \in BitsOfI32(val) THEN -1 ELSE 0)

\* the value rotated by a non-zero amount (lines 202-207)
RorValue(val, amount) ==
    IF amount % 32 # 0 THEN I32OfBits(rotate_right(BitsOfI32(val), amount % 32)) ELSE val

\* a ROR that takes the carry from bit 0 of the rotated value
BarrelRORCarryFromBit0(bs, val, amount, carry_in, immediate) ==
    IF amount = 0
    THEN IF immediate
         THEN ShiftSet(0 \in BitsOfI32(val),
                       I32OfBits(Lsr32(BitsOfI32(val), 1) \cup (IF carry_in THEN {31} ELSE {})))
         ELSE ShiftKeep(bs, val)
    ELSE ShiftSet(0 \in BitsOfI32(RorValue(val, amount)), RorValue(val, amount))

\* barrel_shift_op, BarrelShiftOpCode::ROR (lines 189-212)
BarrelROR(bs, val, amount, carry_in, immediate) ==
    IF amount = 0
    THEN IF immediate
         THEN ShiftSet(0 \in BitsOfI32(val),
                       I32OfBits(Lsr32(BitsOfI32(val), 1) \cup (IF carry_in THEN {31} ELSE {})))
         ELSE ShiftKeep(bs, val)
    ELSE ShiftSet(31 \in BitsOfI32(RorValue(val, amount)), RorValue(val, amount))

\* BarrelShifter::barrel_shift_op: the carry_out of the shifter afterwards and
\* the value returned
barrel_shift_op(bs, shift, val, amount, carry_in, immediate) ==
    CASE shift = "LSL" -> BarrelLSL(bs, val, amount, carry_in)
      [] shift = "LSR" -> BarrelLSR(bs, val, amount, immediate)
      [] shift = "ASR" -> BarrelASR(bs, val, amount, immediate)
      [] shift = "ROR" -> BarrelROR(bs, val, amount, carry_in, immediate)

\* the program counter register
REG_PC == 15

\* Core::new: the shifter is Default, the flags are clear, the host is running
CoreNew ==
    [bs |-> [carry_out |-> FALSE],
     cpsr |-> [N |-> FALSE, Z |-> FALSE, C |-> FALSE, V |-> FALSE],
     host |-> "running"]

\* Core::get_reg on the register file gpr
get_reg(gpr, r) == gpr[r]

\* Ok(result) of register_shift after the shifter returned r
ShiftOk(c, r) ==
    [core |-> [c EXCEPT !.bs.carry_out = r.carry_out], ok |-> TRUE, value |-> r.result,
     err |-> "none"]

\* Core::register_shift: the core afterwards and the CpuResult
register_shift(c, gpr, shift) ==
    IF shift.shift_by.kind = "ByAmount"
    THEN ShiftOk(c, barrel_shift_op(c.bs, shift.bs_op, get_reg(gpr, shift.reg),
                                    shift.shift_by.n, c.cpsr.C, TRUE))
    ELSE IF shift.shift_by.n # REG_PC
         THEN ShiftOk(c, barrel_shift_op(c.bs, shift.bs_op,
                                         get_reg(gpr, shift.reg)
                                             + (IF shift.reg = REG_PC THEN 4 ELSE 0),
                                         get_reg(gpr, shift.shift_by.n) % 256,
                                         c.cpsr.C, FALSE))
         ELSE [core |-> c, ok |-> FALSE, value |-> 0, err |-> "IllegalInstruction"]

\* i32 negation (wrapping at i32::MIN)
Neg32(v) == IF v = (-2147483647) - 1 THEN v ELSE -v

\* the unwrap() of line 251 on the CpuResult r, `added` being shifted_reg.added
\* (unwrap_or(true)): an Err aborts the host
UnwrapShift(r, added) ==
    IF r.ok
    THEN [core |-> r.core, value |-> IF added # "Some(false)" THEN r.value ELSE Neg32(r.value),
          err |-> "none"]
    ELSE [core |-> [r.core EXCEPT !.host = "panicked"], value |-> 0, err |-> r.err]

\* Core::get_barrel_shifted_value
get_barrel_shifted_value(c, gpr, sval) ==
    CASE sval.kind = "ImmediateValue" -> [core |-> c, value |-> sval.offset, err |-> "none"]
      [] sval.kind = "ShiftedRegister" ->
            UnwrapShift(register_shift(c, gpr, sval.shifted_reg), sval.shifted_reg.added)
      [] OTHER -> [core |-> [c EXCEPT !.host = "panicked"], value |-> 0, err |-> "none"]

\* AluOpCode::is_setting_flags
is_setting_flags(opcode) == opcode \in {"TST", "TEQ", "CMP", "CMN"}

\* AluOpCode::is_arithmetic
is_arithmetic(opcode) ==
    opcode \in {"ADD", "ADC", "SUB", "SBC", "RSB", "RSC", "CMP", "CMN"}

\* the lower and the upper halfword of the i32 v as u32, and the upper
\* halfword as a signed number
Lo16(v) == v % 65536
Hi16(v) == (v \div 65536) % 65536
SHi16(v) == v \div 65536

\* the i32 with the halfwords hi and lo
FromHalves(hi, lo) == (IF hi >= 32768 THEN hi - 65536 ELSE hi) * 65536 + lo

\* i32::wrapping_add and i32::wrapping_sub
wrapping_add(a, b) ==
    FromHalves((Hi16(a) + Hi16(b) + (Lo16(a) + Lo16(b)) \div 65536) % 65536,
               (Lo16(a) + Lo16(b)) % 65536)
wrapping_sub(a, b) ==
    FromHalves((Hi16(a) - Hi16(b) + (Lo16(a) - Lo16(b)) \div 65536) % 65536,
               (Lo16(a) - Lo16(b)) % 65536)

\* the overflow flag of i32::overflowing_add and i32::overflowing_sub: the
\* exact result is not an i32
overflowing_add(a, b) ==
    SHi16(a) + SHi16(b) + (Lo16(a) + Lo16(b)) \div 65536 \notin -32768 .. 32767
overflowing_sub(a, b) ==
    SHi16(a) - SHi16(b) + (Lo16(a) - Lo16(b)) \div 65536 \notin -32768 .. 32767

\* a < b, both `as u32`
ULess(a, b) == Hi16(a) < Hi16(b) \/ (Hi16(a) = Hi16(b) /\ Lo16(a) < Lo16(b))

\* Core::alu_sub_flags
alu_sub_flags(a, b) ==
    [res |-> wrapping_sub(a, b), carry |-> b <= a, overflow |-> overflowing_sub(a, b)]

\* an alu_add_flags that compares the sum with its operand as signed numbers
AluAddFlagsSignedCompare(a, b) ==
    [res |-> wrapping_add(a, b),
     carry |-> wrapping_add(a, b) < a \/ wrapping_add(a, b) < b,
     overflow |-> overflowing_add(a, b)]

\* Core::alu_add_flags
alu_add_flags(a, b) ==
    [res |-> wrapping_add(a, b),
     carry |-> ULess(wrapping_add(a, b), a) \/ ULess(wrapping_add(a, b), b),
     overflow |-> overflowing_add(a, b)]

\* a result of the match of alu_flags that leaves carry and overflow alone
AluLogical(c, res) == [res |-> res, carry |-> c.bs.carry_out, overflow |-> c.cpsr.V]

\* r with its result lowered by 1 - C (SBC, RSC)
AluMinusNotC(c, r) ==
    [r EXCEPT !.res = wrapping_sub(r.res, 1 - (IF c.cpsr.C THEN 1 ELSE 0))]

\* the match of alu_flags (lines 307-320): the result, carry and overflow
AluMatch(c, opcode, op1, op2) ==
    CASE opcode \in {"AND", "TST"} ->
            AluLogical(c, I32OfBits(BitsOfI32(op1) \cap BitsOfI32(op2)))
      [] opcode \in {"EOR", "TEQ"} ->
            AluLogical(c, I32OfBits((BitsOfI32(op1) \cup BitsOfI32(op2))
                                        \ (BitsOfI32(op1) \cap BitsOfI32(op2))))
      [] opcode \in {"SUB", "CMP"} -> alu_sub_flags(op1, op2)
      [] opcode = "RSB" -> alu_sub_flags(op2, op1)
      [] opcode \in {"ADD", "CMN"} -> alu_add_flags(op1, op2)
      [] opcode = "ADC" -> alu_add_flags(op1, wrapping_add(op2, IF c.cpsr.C THEN 1 ELSE 0))
      [] opcode = "SBC" -> AluMinusNotC(c, alu_sub_flags(op1, op2))
      [] opcode = "RSC" -> AluMinusNotC(c, alu_sub_flags(op2, op1))
      [] opcode = "ORR" -> AluLogical(c, I32OfBits(BitsOfI32(op1) \cup BitsOfI32(op2)))
      [] opcode = "MOV" -> AluLogical(c, op2)
      [] opcode = "BIC" -> AluLogical(c, I32OfBits(BitsOfI32(op1) \ BitsOfI32(op2)))
      [] opcode = "MVN" -> AluLogical(c, I32OfBits((0 .. 31) \ BitsOfI32(op2)))

\* lines 322-333 of alu_flags: the flags are set from r and the result is
\* returned unless the opcode is a compare
AluSetFlags(c, opcode, r) ==
    [core |-> [c EXCEPT !.cpsr = [N |-> r.res < 0, Z |-> r.res = 0, C |-> r.carry,
                                  V |-> IF is_arithmetic(opcode) THEN r.overflow
                                        ELSE c.cpsr.V]],
     some |-> ~is_setting_flags(opcode),
     value |-> r.res]

\* Core::alu_flags
alu_flags(c, opcode, op1, op2) == AluSetFlags(c, opcode, AluMatch(c, opcode, op1, op2))

\* opcodes and operands in the ALU specification: 0, 1, 0xFFFF_FFFF,
\* 0x7FFF_FFFF, 0x8000_0000
AluOpCodes ==
    {"AND", "EOR", "SUB", "RSB", "ADD", "ADC", "SBC", "RSC", "TST", "TEQ", "CMP", "CMN",
     "ORR", "MOV", "BIC", "MVN"}
AluValues == {0, 1, -1, 2147483647, (-2147483647) - 1}

\* operations, values, amounts of the shifts in the shifter specification:
\* the values 0x8000_0001, 0x7FFF_FFFF, 0x1234_5678
ShiftOps == {"LSL", "LSR", "ASR", "ROR"}
ShiftValues == {-2147483647, 2147483647, 305419896}
ShiftAmounts == {0, 1, 4, 31, 32, 33, 64}

\* the shifted registers in the shifter specification: Rm is r2 or the PC, with
\* the value it holds; the amount is the immediate 5, or the register r3
\* (holding 0 or 0x120) or the PC
ShiftRegs == {<<2, -2147483647>>, <<15, 134217736>>}
ShiftBys ==
    {[kind |-> "ByAmount", n |-> 5, held |-> 0]}
    \cup {[kind |-> "ByRegister", n |-> 3, held |-> a] : a \in {0, 288}}
    \cup {[kind |-> "ByRegister", n |-> 15, held |-> 134217736]}
ShiftAddeds == {"None", "Some(true)", "Some(false)"}

\* the register file in which register rv[1] holds rv[2] and the shift
\* register of `by` holds by.held
GprWith(rv, by) ==
    [r \in 0 .. 15 |-> IF r = rv[1] THEN rv[2]
                       ELSE IF by.kind = "ByRegister" /\ r = by.n THEN by.held
                       ELSE 0]

\* the ShiftedRegister of register rv[1] shifted as `by` says
ShiftedReg(rv, by, bs_op, added) ==
    [reg |-> rv[1], shift_by |-> [kind |-> by.kind, n |-> by.n], bs_op |-> bs_op,
     added |-> added]

\* no operation of the core has run yet
ExecutedNone ==
    [op |-> "none", shift |-> "none", val |-> 0, amount |-> 0, carry_in |-> FALSE,
     immediate |-> FALSE, by |-> "none", rs |-> 0, added |-> "None",
     opcode |-> "none", op1 |-> 0, op2 |-> 0, raw |-> {}, addr |-> 0,
     result |-> 0, wrote |-> FALSE, ok |-> TRUE, err |-> "none",
     fmt |-> "none", handler |-> "none", cond |-> 0,
     link |-> FALSE, offset |-> 0, target |-> 0]

\* u32::bit_range(lo .. hi + 1) of the word raw
bit_range(raw, hi, lo) == SumPow2({i - lo : i \in raw \cap (lo .. hi)}, hi - lo)

\* a branch_offset that shifts the field back without its sign
BranchOffsetUnsigned(raw) == I32OfBits(Lsr32(Shl32(raw \cap (0 .. 23), 8), 6))

\* ArmInstruction::branch_offset: ((raw.bit_range(0..24) << 8) as i32) >> 6
branch_offset(raw) == I32OfBits(Sar32(Shl32(raw \cap (0 .. 23), 8), 6))

\* ArmInstruction::link_flag
link_flag(raw) == 24 \in raw

\* the branch target of the instruction raw at pc, as the decoder tests
\* compute it: (pc as i32).wrapping_add(branch_offset) + 8
branch_target(addr, raw) == wrapping_add(addr, branch_offset(raw)) + 8

\* ArmCond::from_u32: Some(cond) for the fifteen conditions EQ .. AL
ArmCondFrom(v) == [some |-> v <= 14, cond |-> v]

\* ArmInstruction::cond: from_u32(...).unwrap(); None aborts the host
insn_cond(c, raw) ==
    IF ArmCondFrom(bit_range(raw, 31, 28)).some
    THEN [core |-> c, ok |-> TRUE, cond |-> ArmCondFrom(bit_range(raw, 31, 28)).cond]
    ELSE [core |-> [c EXCEPT !.host = "panicked"], ok |-> FALSE, cond |-> 0]

\* From<ArmFormat> for ArmInstructionHandler: the handler of a format; the
\* handler of Undefined is the closure that panics
HandlerOf(fmt) ==
    CASE fmt = "BX" -> "exec_arm_bx"
      [] fmt = "B_BL" -> "exec_arm_b_bl"
      [] fmt = "DP" -> "exec_arm_data_processing"
      [] fmt = "SWI" -> "exec_arm_swi"
      [] fmt = "LDR_STR" -> "exec_arm_ldr_str"
      [] fmt = "LDR_STR_HS_IMM" -> "exec_arm_ldr_str_hs"
      [] fmt = "LDR_STR_HS_REG" -> "exec_arm_ldr_str_hs"
      [] fmt = "LDM_STM" -> "exec_arm_ldm_stm"
      [] fmt = "MRS" -> "exec_arm_mrs"
      [] fmt = "MSR_REG" -> "exec_arm_msr_reg"
      [] fmt = "MSR_FLAGS" -> "exec_arm_msr_flags"
      [] fmt = "MUL_MLA" -> "exec_arm_mul_mla"
      [] fmt = "MULL_MLAL" -> "exec_arm_mull_mlal"
      [] fmt = "SWP" -> "exec_arm_swp"
      [] fmt = "Undefined" -> "panic"

\* the handler_fn of the ARM_LUT entry of the word raw is called: the closure
\* of Undefined aborts the host; what the other handlers do to the core is not
\* part of this model
Dispatch(c, raw) ==
    [core |-> IF HandlerOf(ARM_LUT[arm_insn_hash(raw)]) = "panic"
              THEN [c EXCEPT !.host = "panicked"] ELSE c,
     fmt |-> ARM_LUT[arm_insn_hash(raw)],
     handler |-> HandlerOf(ARM_LUT[arm_insn_hash(raw)])]

\* the branch words of the instruction specification: conditions EQ and AL,
\* with and without link, the offset fields 0x000000, 0x000002, 0xFFFFFA,
\* 0x7FFFFF, 0x800000, 0xFFFFFF; at the addresses 0x20, 0x100, 0x0800_0000
BranchFields == {<<0, 0>>, <<0, 2>>, <<255, 65530>>, <<127, 65535>>, <<128, 0>>, <<255, 65535>>}
BranchWords ==
    {Word32(cn * 4096 + 2560 + l * 256 + f[1], f[2]) :
        cn \in {0, 14}, l \in {0, 1}, f \in BranchFields}
BranchAddrs == {32, 256, 134217728}

\* the words whose condition is obtained: every value of bits 31..28 on a
\* branch and on a data-processing word
CondWords == {Word32(cn * 4096 + b, 2) : cn \in 0 .. 15, b \in {2560, 129}}

\* the words dispatched: BX, B, ADD, SWI, LDR, LDM, MRS, MUL, STRH and the
\* coprocessor words 0xEE00_0000, 0xEC10_0000, 0x0D00_0010
DispatchWords ==
    {Word32(\hE12F, \hFF1E), Word32(\hEA00, \h0002), Word32(\hE081, \h0002),
     Word32(\hEF00, \h0013), Word32(\hE591, \h0000), Word32(\hE8BD, \h8000),
     Word32(\hE10F, \h0000), Word32(\hE000, \h0291), Word32(\hE1C0, \h00B0),
     Word32(\hEE00, \h0000), Word32(\hEC10, \h0000), Word32(\h0D00, \h0010)}

---------------------------------------------------------------------------
(* State after construction *)

LastNone(op) ==
    [op |-> op, order |-> <<>>, irqs |-> {}, done |-> [ch \in Channels |-> 0],
     folded |-> FALSE, irq_entered |-> FALSE, masked |-> FALSE,
     prev_state |-> "HDraw", prev_line |-> 0, renders |-> 0, rendered |-> <<>>,
     pre |-> [dmac |-> DmaControllerNew, mem |-> MemNew], addr |-> 0, value |-> 0]

\* GameBoyAdvance::new; the Core is handed in by the caller with its CPSR
Init ==
    /\ gpu = GpuNew
    /\ dmac = DmaControllerNew
    /\ mem = MemNew
    /\ ioregs = IoRegsNew
    /\ io_writes = 0
    /\ decoded = DecodedNone
    /\ core = CoreNew
    /\ executed = ExecutedNone
    /\ intc = IntcNew
    /\ cpu \in [irq_disabled : BOOLEAN]
    /\ pc = "idle"
    /\ last = LastNone("new")
    /\ vblank_renders = 0
    /\ frame_renders = 0
    /\ spent = [ch \in Channels |-> FALSE]
    /\ extra = [ch \in Channels |-> 0]
    /\ fed = 0

---------------------------------------------------------------------------
(* Bookkeeping shared by the actions *)

\* the history of the DMA channels after a run of triggers: pre the controller
\* before, done the transfers each channel completed
SpentAfter(pre, done) ==
    [ch \in Channels |-> spent[ch] \/ (done[ch] >= 1 /\ ~repeat(pre.channels[ch].ctrl))]

ExtraAfter(pre, done) ==
    [ch \in Channels |->
        extra[ch] + (IF spent[ch] THEN done[ch]
                     ELSE IF ~repeat(pre.channels[ch].ctrl) /\ done[ch] > 1 THEN done[ch] - 1
                     ELSE 0)]

\* The state after one emulate_peripherals whose result is w; renders is the
\* number of backend.render calls of the operation, next_pc the host position
Commit(w, op, cycles, renders, next_pc) ==
    LET entered == gpu.state # "VBlank" /\ w.gpu.state = "VBlank" IN
    /\ gpu' = w.gpu
    /\ dmac' = w.dmac
    /\ mem' = w.mem
    /\ UNCHANGED <<ioregs, io_writes, decoded, core, executed>>
    /\ intc' = w.intc
    /\ cpu' = w.cpu
    /\ pc' = IF w.panicked THEN "panicked" ELSE next_pc
    /\ last' = [op |-> op, order |-> w.order, irqs |-> w.irqs, done |-> w.done,
                folded |-> w.folded, irq_entered |-> w.irq_entered,
                masked |-> cpu.irq_disabled,
                prev_state |-> gpu.state, prev_line |-> gpu.current_scanline,
                renders |-> renders, rendered |-> w.rendered, pre |-> LastNone(op).pre,
                addr |-> 0, value |-> 0]
    /\ vblank_renders' = (IF entered THEN 0 ELSE vblank_renders) + renders
    /\ spent' = SpentAfter(dmac, w.done)
    /\ extra' = ExtraAfter(dmac, w.done)
    /\ fed' = fed + cycles

---------------------------------------------------------------------------
(* GameBoyAdvance::step and GameBoyAdvance::frame *)

\* the end of step() after an emulate_peripherals whose result is w:
\* backend.render when the GPU entered VBlank
StepCommit(w, cycles) ==
    Commit(w, "step", cycles,
           IF ~w.panicked /\ w.gpu.state # gpu.state /\ w.gpu.state = "VBlank" THEN 1 ELSE 0,
           "idle")

\* GameBoyAdvance::step with an instruction of `cycles` cycles
StepWith(cycleset, cap) ==
    /\ pc = "idle"
    /\ \E cycles \in cycleset, tirqs \in TimerIrqs :
         /\ fed + cycles <= cap
         /\ StepCommit(EmulatePeripherals(gpu, dmac, mem, intc, cpu, cycles, tirqs), cycles)
         /\ UNCHANGED frame_renders

Step == StepWith(CpuCycles, MaxSysCycles)

\* frame() is entered: update_key_state, then the first loop
FrameBegin ==
    /\ pc = "idle"
    /\ pc' = "frame_draw"
    /\ frame_renders' = 0
    /\ last' = LastNone("frame_begin")
    /\ UNCHANGED <<gpu, dmac, mem, ioregs, io_writes, decoded, core, executed, intc, cpu, vblank_renders, spent, extra, fed>>

\* one iteration of a loop of frame(): emulate_cpu, emulate_peripherals, while
\* the cycles fed stay within cap
FrameIterWithin(at, cap) ==
    /\ pc = at
    /\ \E cycles \in CpuCycles, tirqs \in TimerIrqs :
         /\ fed + cycles <= cap
         /\ \E w \in {EmulatePeripherals(gpu, dmac, mem, intc, cpu, cycles, tirqs)} :
                /\ Commit(w, "frame_iter", cycles, 0, at)
                /\ UNCHANGED frame_renders

FrameIter(at) == FrameIterWithin(at, MaxSysCycles)

\* the first loop of frame(): while the GPU is not in VBlank
FrameDrawIter == gpu.state # "VBlank" /\ FrameIter("frame_draw")

\* a frame() that leaves its first loop without calling backend.render
FrameRenderSkipped ==
    /\ pc = "frame_draw"
    /\ gpu.state = "VBlank"
    /\ pc' = "frame_vblank"
    /\ last' = LastNone("frame_render")
    /\ UNCHANGED <<gpu, dmac, mem, ioregs, io_writes, decoded, core, executed, intc, cpu, vblank_renders, frame_renders, spent, extra, fed>>

\* the first loop has ended: backend.render
FrameRender ==
    /\ pc = "frame_draw"
    /\ gpu.state = "VBlank"
    /\ pc' = "frame_vblank"
    /\ frame_renders' = frame_renders + 1
    /\ vblank_renders' = vblank_renders + 1
    /\ last' = [LastNone("frame_render") EXCEPT !.renders = 1]
    /\ UNCHANGED <<gpu, dmac, mem, ioregs, io_writes, decoded, core, executed, intc, cpu, spent, extra, fed>>

\* the second loop of frame(): while the GPU is in VBlank
FrameVBlankIter == gpu.state = "VBlank" /\ FrameIter("frame_vblank")

\* the second loop has ended: frame() returns
FrameReturn ==
    /\ pc = "frame_vblank"
    /\ gpu.state # "VBlank"
    /\ pc' = "idle"
    /\ last' = LastNone("frame_return")
    /\ UNCHANGED <<gpu, dmac, mem, ioregs, io_writes, decoded, core, executed, intc, cpu, vblank_renders, frame_renders, spent, extra, fed>>

Next ==
    \/ Step
    \/ FrameBegin
    \/ FrameDrawIter
    \/ FrameRender
    \/ FrameVBlankIter
    \/ FrameReturn

\* the whole system driven by step() and frame()
Spec == Init /\ [][Next]_vars

---------------------------------------------------------------------------
(* The frame specification: frame() entered after any number of step() calls *)
(* of the first frame period, with a host that keeps running the loops of    *)
(* frame(): each loop iteration and each loop exit is taken when it can be   *)

\* step() before frame() is called
StepBeforeFrame == StepWith(CpuCycles, MaxFrameStart)

\* frame() is called within the first MaxFrameStart cycles
FrameStart == fed <= MaxFrameStart /\ FrameBegin

FrameDrawLoop == gpu.state # "VBlank" /\ FrameIterWithin("frame_draw", MaxFrameCycles)

FrameVBlankLoop == gpu.state = "VBlank" /\ FrameIterWithin("frame_vblank", MaxFrameCycles)

NextFrame ==
    \/ StepBeforeFrame
    \/ FrameStart
    \/ FrameDrawLoop
    \/ FrameRender
    \/ FrameVBlankLoop
    \/ FrameReturn

SpecFrame ==
    /\ Init
    /\ [][NextFrame]_vars
    /\ WF_vars(FrameDrawLoop)
    /\ WF_vars(FrameRender)
    /\ WF_vars(FrameVBlankLoop)
    /\ WF_vars(FrameReturn)

---------------------------------------------------------------------------
(* The interrupt specification: step() with the guest and the host            *)
(* programming the interrupt controller, DISPSTAT and DMA channel 0           *)

IrqStep == StepWith(IrqCpuCycles, MaxIrqCycles)

\* an operation at the idle position that is no peripheral step
Configure ==
    /\ pc = "idle"
    /\ last' = LastNone("configure")
    /\ UNCHANGED <<pc, vblank_renders, frame_renders, extra, fed>>

\* IoRegs::write_16 of REG_DISPSTAT
CpuWriteDispstat ==
    /\ \E value \in DispstatWrites :
         /\ gpu.dispstat # Or16(gpu.dispstat, value)
         /\ gpu' = [gpu EXCEPT !.dispstat = Or16(gpu.dispstat, value)]
    /\ Configure
    /\ UNCHANGED <<dmac, mem, ioregs, io_writes, decoded, core, executed, intc, cpu, spent>>

\* IoRegs::write_16 of REG_IE
CpuWriteIE ==
    /\ \E value \in IeWrites :
         /\ intc.interrupt_enable # value
         /\ intc' = [intc EXCEPT !.interrupt_enable = value]
    /\ Configure
    /\ UNCHANGED <<gpu, dmac, mem, ioregs, io_writes, decoded, core, executed, cpu, spent>>

\* IoRegs::write_16 of REG_IME with a value that is not 0
CpuWriteIME ==
    /\ ~intc.interrupt_master_enable
    /\ intc' = [intc EXCEPT !.interrupt_master_enable = TRUE]
    /\ Configure
    /\ UNCHANGED <<gpu, dmac, mem, ioregs, io_writes, decoded, core, executed, cpu, spent>>

\* IoRegs::write_16 of REG_IF: the request bits that are 1 in value are cleared
CpuWriteIF ==
    /\ \E value \in IfWrites :
         /\ intc.interrupt_flags \cap value # {}
         /\ intc' = [intc EXCEPT !.interrupt_flags = @ \ value]
    /\ Configure
    /\ UNCHANGED <<gpu, dmac, mem, ioregs, io_writes, decoded, core, executed, cpu, spent>>

\* the guest sets or clears the CPSR IRQ-mask bit (MSR, return from the handler)
CpuSetIrqMask ==
    /\ cpu' = [cpu EXCEPT !.irq_disabled = ~cpu.irq_disabled]
    /\ Configure
    /\ UNCHANGED <<gpu, dmac, mem, ioregs, io_writes, decoded, core, executed, intc, spent>>

\* DmaController::write_dma_ctrl of channel 0 through the public io handle,
\* before the first peripheral step
HostWriteDmaCtrl ==
    /\ fed = 0
    /\ \E value \in IrqDmaCtrls :
         /\ dmac.channels[0].ctrl # value
         /\ dmac' = write_dma_ctrl(dmac, 0, value)
         /\ spent' = [spent EXCEPT ![0] = IF is_enabled(value) THEN FALSE ELSE @]
    /\ Configure
    /\ UNCHANGED <<gpu, mem, ioregs, io_writes, decoded, core, executed, intc, cpu>>

NextIrq ==
    \/ IrqStep
    \/ CpuWriteDispstat
    \/ CpuWriteIE
    \/ CpuWriteIME
    \/ CpuWriteIF
    \/ CpuSetIrqMask
    \/ HostWriteDmaCtrl

SpecIrq == Init /\ [][NextIrq]_vars

---------------------------------------------------------------------------
(* The GPU specifications: Gpu::step alone *)

\* the state after a Gpu::step whose result is r
CommitGpu(r, cycles) ==
    /\ gpu' = r.gpu
    /\ last' = [LastNone("gpu_step") EXCEPT !.irqs = r.irqs,
                                            !.rendered = r.rendered,
                                            !.prev_state = gpu.state,
                                            !.prev_line = gpu.current_scanline]
    /\ fed' = fed + cycles
    /\ UNCHANGED <<dmac, mem, ioregs, io_writes, decoded, core, executed, intc, cpu, pc, vblank_renders, frame_renders, spent, extra>>

\* Gpu::step with one of the step sizes of GpuCycles
GpuStepAny ==
    \E cycles \in GpuCycles :
        /\ gpu.cycles + cycles <=
              MaxGpuLag + (CASE gpu.state = "HDraw" -> CYCLES_HDRAW
                             [] gpu.state = "HBlank" -> CYCLES_HBLANK
                             [] gpu.state = "VBlank" -> CYCLES_VBLANK)
        /\ fed + cycles <= MaxSysCycles
        /\ CommitGpu(GpuStep(gpu, cycles), cycles)

SpecGpu == Init /\ [][GpuStepAny]_vars

\* Gpu::step(1)
GpuTick ==
    /\ fed < MaxFed
    /\ CommitGpu(GpuStep(gpu, 1), 1)

SpecGpuTick == Init /\ [][GpuTick]_vars

\* IoRegs::write_16 of REG_DISPSTAT with a VCount setting or the VCount IRQ enable
CpuWriteVCount ==
    /\ \E value \in VCountWrites :
         /\ gpu.dispstat # Or16(gpu.dispstat, value)
         /\ gpu' = [gpu EXCEPT !.dispstat = Or16(gpu.dispstat, value)]
    /\ Configure
    /\ UNCHANGED <<dmac, mem, ioregs, io_writes, decoded, core, executed, intc, cpu, spent>>

NextGpuIrq ==
    \/ GpuStepAny
    \/ CpuWriteDispstat

\* Gpu::step with the guest enabling the H-blank and V-blank IRQs in DISPSTAT
SpecGpuIrq == Init /\ [][NextGpuIrq]_vars

NextVCount ==
    \/ GpuStepAny
    \/ CpuWriteVCount

\* Gpu::step with the guest programming the VCount fields of DISPSTAT
SpecVCount == Init /\ [][NextVCount]_vars

---------------------------------------------------------------------------
(* The DMA specification: the DMA controller alone, under its three         *)
(* triggers and writes of its control and word count registers              *)

\* the state after a run r of a trigger over the channels
CommitDma(r, op) ==
    /\ \A ch \in Channels : /\ r.dmac.channels[ch].dst <= MaxDmaAddr
                            /\ r.dmac.channels[ch].src <= MaxDmaAddr
    /\ dmac' = r.dmac
    /\ mem' = r.mem
    /\ UNCHANGED <<ioregs, io_writes, decoded, core, executed>>
    /\ pc' = IF r.panicked THEN "panicked" ELSE pc
    /\ last' = [LastNone(op) EXCEPT !.irqs = r.irqs, !.done = r.done]
    /\ spent' = SpentAfter(dmac, r.done)
    /\ extra' = ExtraAfter(dmac, r.done)
    /\ UNCHANGED <<gpu, intc, cpu, vblank_renders, frame_renders, fed>>

\* DmaController::step
DmaTick ==
    /\ pc = "idle"
    /\ \E cycles \in DmaCycles :
         /\ dmac.cycles + cycles <= MaxDmaCycles
         /\ CommitDma(DmacStep(dmac, mem, cycles), "dma_step")

\* DmaController::notify_vblank
DmaNotifyVBlank == pc = "idle" /\ CommitDma(notify_vblank(dmac, mem), "notify_vblank")

\* DmaController::notify_hblank
DmaNotifyHBlank == pc = "idle" /\ CommitDma(notify_hblank(dmac, mem), "notify_hblank")

\* DmaController::write_dma_ctrl
DmaWriteCtrl ==
    /\ pc = "idle"
    /\ \E ch \in DmaWriteChannels, value \in DmaCtrls :
         /\ dmac' = write_dma_ctrl(dmac, ch, value)
         /\ spent' = [spent EXCEPT ![ch] = IF is_enabled(value) THEN FALSE ELSE @]
    /\ last' = LastNone("write_dma_ctrl")
    /\ UNCHANGED <<gpu, mem, ioregs, io_writes, decoded, core, executed, intc, cpu, pc, vblank_renders, frame_renders, extra, fed>>

\* DmaController::write_word_count
DmaWriteWordCount ==
    /\ pc = "idle"
    /\ \E ch \in DmaWriteChannels, value \in DmaWordCounts :
         dmac' = write_word_count(dmac, ch, value)
    /\ last' = LastNone("write_word_count")
    /\ UNCHANGED <<gpu, mem, ioregs, io_writes, decoded, core, executed, intc, cpu, pc, vblank_renders, frame_renders, spent, extra, fed>>

NextDma ==
    \/ DmaTick
    \/ DmaNotifyVBlank
    \/ DmaNotifyHBlank
    \/ DmaWriteCtrl
    \/ DmaWriteWordCount

SpecDma == Init /\ [][NextDma]_vars

---------------------------------------------------------------------------
(* The transfer specification: channel 0 is programmed (source, destination,  *)
(* word count, control word) over a filled work RAM and then triggered by     *)
(* V-blank notifications                                                      *)

\* the channel is programmed while it is disabled, the control word last
XferSetup ==
    /\ pc = "idle"
    /\ last.op \in {"new", "setup"}
    /\ dmac.channels[0].ctrl = 0
    /\ last' = LastNone("setup")
    /\ UNCHANGED <<gpu, intc, cpu, pc, vblank_renders, frame_renders, spent, extra, fed>>

\* the guest fills the work RAM, each halfword with a value of its own
XferFillMem ==
    /\ mem = MemNew
    /\ mem' = [a \in MemAddrs |-> a + 1]
    /\ XferSetup
    /\ UNCHANGED <<dmac, ioregs, io_writes, decoded, core, executed>>

\* DmaController::write_src_low / write_src_high
XferWriteSrc ==
    /\ \E value \in XferSrcs : dmac' = write_src(dmac, 0, value)
    /\ XferSetup
    /\ UNCHANGED <<mem, ioregs, io_writes, decoded, core, executed>>

\* DmaController::write_dst_low / write_dst_high
XferWriteDst ==
    /\ \E value \in XferDsts : dmac' = write_dst(dmac, 0, value)
    /\ XferSetup
    /\ UNCHANGED <<mem, ioregs, io_writes, decoded, core, executed>>

\* DmaController::write_word_count
XferWriteWordCount ==
    /\ \E value \in XferWordCounts : dmac' = write_word_count(dmac, 0, value)
    /\ XferSetup
    /\ UNCHANGED <<mem, ioregs, io_writes, decoded, core, executed>>

\* DmaController::write_dma_ctrl
XferWriteCtrl ==
    /\ \E value \in XferCtrls : dmac' = write_dma_ctrl(dmac, 0, value)
    /\ XferSetup
    /\ UNCHANGED <<mem, ioregs, io_writes, decoded, core, executed>>

\* DmaController::notify_vblank, while the units of channel 0 lie inside the
\* modelled region of work RAM
XferNotifyVBlank ==
    /\ pc = "idle"
    /\ LET r == notify_vblank(dmac, mem)
           c == dmac.channels[0]
           c1 == r.dmac.channels[0]
       IN  /\ {c.src, c.dst} \subseteq 0 .. (MemTop - 2)
           /\ {c1.src, c1.dst} \subseteq 0 .. (MemTop + 2)
           /\ dmac' = r.dmac
           /\ mem' = r.mem
           /\ UNCHANGED <<ioregs, io_writes, decoded, core, executed>>
           /\ pc' = IF r.panicked THEN "panicked" ELSE pc
           /\ last' = [LastNone("xfer") EXCEPT !.irqs = r.irqs, !.done = r.done,
                                               !.pre = [dmac |-> dmac, mem |-> mem]]
           /\ spent' = SpentAfter(dmac, r.done)
           /\ extra' = ExtraAfter(dmac, r.done)
    /\ UNCHANGED <<gpu, intc, cpu, vblank_renders, frame_renders, fed>>

NextXfer ==
    \/ XferFillMem
    \/ XferWriteSrc
    \/ XferWriteDst
    \/ XferWriteWordCount
    \/ XferWriteCtrl
    \/ XferNotifyVBlank

SpecXfer == Init /\ [][NextXfer]_vars

---------------------------------------------------------------------------
(* The register specification: the guest reads and writes I/O registers     *)
(* through IoRegs while the devices request interrupts                      *)

\* the state after a register write whose result is r
CommitIo(r, op, addr, value) ==
    /\ pc = "idle"
    /\ io_writes < MaxIoWrites
    /\ gpu' = r.gpu
    /\ intc' = r.intc
    /\ ioregs' = r.regs
    /\ io_writes' = io_writes + 1
    /\ UNCHANGED <<decoded, core, executed>>
    /\ pc' = IF r.panicked THEN "panicked" ELSE pc
    /\ last' = [LastNone(op) EXCEPT !.addr = addr, !.value = value,
                                    !.pre = IoState(gpu, intc, ioregs)]
    /\ UNCHANGED <<dmac, mem, cpu, vblank_renders, frame_renders, spent, extra, fed>>

\* IoRegs::write_16
IoWrite16 ==
    \E addr \in IoAddrs16, value \in IoValues16 :
        CommitIo(write_16(IoState(gpu, intc, ioregs), addr, value), "write_16", addr, value)

\* IoRegs::write_8
IoWrite8 ==
    \E addr \in IoAddrs8, value \in IoValues8 :
        CommitIo(write_8(IoState(gpu, intc, ioregs), addr, value), "write_8", addr, value)

\* InterruptController::request_irqs: the devices raise interrupt requests
IoRequestIrqs ==
    /\ pc = "idle"
    /\ \E irqs \in IoIrqs :
         /\ ~(irqs \subseteq intc.interrupt_flags)
         /\ intc' = request_irqs(intc, irqs)
    /\ last' = LastNone("request_irqs")
    /\ UNCHANGED <<gpu, dmac, mem, ioregs, io_writes, decoded, core, executed, cpu, pc, vblank_renders,
                   frame_renders, spent, extra, fed>>

NextIo ==
    \/ IoWrite16
    \/ IoWrite8
    \/ IoRequestIrqs

SpecIo == Init /\ [][NextIo]_vars

---------------------------------------------------------------------------
(* The shifter specification: the barrel shifter is driven directly and     *)
(* through register_shift and get_barrel_shifted_value                      *)

\* the core and the record of its latest operation are replaced
CommitCore(c, e) ==
    /\ core' = c
    /\ executed' = e
    /\ UNCHANGED <<gpu, dmac, mem, ioregs, io_writes, decoded, intc, cpu, pc, last,
                   vblank_renders, frame_renders, spent, extra, fed>>

\* the record of a barrel_shift_op that returned r
ShiftDone(c, shift, val, amount, carry_in, immediate, r) ==
    CommitCore([c EXCEPT !.bs.carry_out = r.carry_out],
               [ExecutedNone EXCEPT !.op = "barrel_shift_op", !.shift = shift, !.val = val,
                                    !.amount = amount, !.carry_in = carry_in,
                                    !.immediate = immediate, !.result = r.result])

\* BarrelShifter::barrel_shift_op
BarrelShiftOp ==
    /\ core.host = "running"
    /\ \E shift \in ShiftOps, val \in ShiftValues, amount \in ShiftAmounts,
          carry_in \in BOOLEAN, immediate \in BOOLEAN :
         ShiftDone(core, shift, val, amount, carry_in, immediate,
                   barrel_shift_op(core.bs, shift, val, amount, carry_in, immediate))

\* the record of a register_shift or get_barrel_shifted_value that returned r
RegShiftDone(op, rv, by, bs_op, added, r) ==
    CommitCore(r.core,
               [ExecutedNone EXCEPT !.op = op, !.shift = bs_op, !.val = rv[2],
                                    !.by = by.kind, !.rs = by.n, !.amount = by.held,
                                    !.added = added, !.result = r.value,
                                    !.ok = (r.err = "none"), !.err = r.err])

\* Core::register_shift
RegisterShift ==
    /\ core.host = "running"
    /\ \E rv \in ShiftRegs, by \in ShiftBys, bs_op \in ShiftOps :
         RegShiftDone("register_shift", rv, by, bs_op, "None",
                      register_shift(core, GprWith(rv, by), ShiftedReg(rv, by, bs_op, "None")))

\* Core::get_barrel_shifted_value of a ShiftedRegister
GetBarrelShiftedValue ==
    /\ core.host = "running"
    /\ \E rv \in ShiftRegs, by \in ShiftBys, bs_op \in {"LSL", "LSR"}, added \in ShiftAddeds :
         RegShiftDone("get_barrel_shifted_value", rv, by, bs_op, added,
                      get_barrel_shifted_value(core, GprWith(rv, by),
                          [kind |-> "ShiftedRegister",
                           shifted_reg |-> ShiftedReg(rv, by, bs_op, added)]))

NextShift ==
    \/ BarrelShiftOp
    \/ RegisterShift
    \/ GetBarrelShiftedValue

SpecShift == Init /\ [][NextShift]_vars

---------------------------------------------------------------------------
(* The ALU specification: data-processing operations with flag update *)

\* the record of an alu_flags that returned r
AluDone(opcode, op1, op2, r) ==
    CommitCore(r.core,
               [ExecutedNone EXCEPT !.op = "alu_flags", !.opcode = opcode, !.op1 = op1,
                                    !.op2 = op2, !.wrote = r.some, !.result = r.value])

\* Core::alu_flags
AluFlags ==
    /\ core.host = "running"
    /\ \E opcode \in AluOpCodes, op1 \in AluValues, op2 \in AluValues :
         AluDone(opcode, op1, op2, alu_flags(core, opcode, op1, op2))

SpecAlu == Init /\ [][AluFlags]_vars

---------------------------------------------------------------------------
(* The instruction specification: the fields of branch words, the condition *)
(* of a word, and the dispatch of a word through ARM_LUT                    *)

\* a BranchLink word is decoded at an address and its fields are read
ArmBranch ==
    /\ core.host = "running"
    /\ \E raw \in BranchWords, addr \in BranchAddrs :
         CommitCore(core,
                    [ExecutedNone EXCEPT !.op = "branch", !.raw = raw, !.addr = addr,
                                         !.fmt = decode(raw), !.link = link_flag(raw),
                                         !.offset = branch_offset(raw),
                                         !.target = branch_target(addr, raw)])

\* the record of a cond() that returned r
CondDone(raw, r) ==
    CommitCore(r.core, [ExecutedNone EXCEPT !.op = "cond", !.raw = raw, !.ok = r.ok,
                                            !.cond = r.cond])

\* ArmInstruction::cond
ArmCond ==
    /\ core.host = "running"
    /\ \E raw \in CondWords : CondDone(raw, insn_cond(core, raw))

\* the record of a dispatch that returned r
DispatchDone(raw, r) ==
    CommitCore(r.core, [ExecutedNone EXCEPT !.op = "dispatch", !.raw = raw, !.fmt = r.fmt,
                                            !.handler = r.handler])

\* the handler of a word is looked up in ARM_LUT and called
ArmDispatch ==
    /\ core.host = "running"
    /\ \E raw \in DispatchWords : DispatchDone(raw, Dispatch(core, raw))

NextArm ==
    \/ ArmBranch
    \/ ArmCond
    \/ ArmDispatch

SpecArm == Init /\ [][NextArm]_vars

---------------------------------------------------------------------------
(* The decoder specification: instruction words are decoded by the full-word *)
(* classifier and looked up in ARM_LUT                                        *)

\* ArmInstruction::decode of a word, and the entry of ARM_LUT at its hash
DecodeWord ==
    /\ pc = "idle"
    /\ decoded = DecodedNone
    /\ \E raw \in DecodeWords :
         decoded' = [raw |-> raw, fmt |-> decode(raw), lut_fmt |-> ARM_LUT[arm_insn_hash(raw)]]
    /\ last' = LastNone("decode")
    /\ UNCHANGED <<gpu, dmac, mem, ioregs, io_writes, core, executed, intc, cpu, pc,
                   vblank_renders, frame_renders, spent, extra, fed>>

SpecDecode == Init /\ [][DecodeWord]_vars

---------------------------------------------------------------------------
(* Properties *)

PeripheralOps == {"step", "frame_iter"}

\* the place of a device in the order of emulate_peripherals
Rank(tag) ==
    CASE tag = "timers" -> 1
      [] tag = "gpu" -> 2
      [] tag \in {"notify_hblank", "notify_vblank"} -> 3
      [] tag = "dma" -> 4
      [] tag = "irq_check" -> 5
      [] tag = "irq_exception" -> 6

Tags(order) == {order[i] : i \in 1 .. Len(order)}

\* C1: in every peripheral step the timers are stepped first, then the GPU,
\* then the DMA controller (its hblank / vblank notification, then its cycle
\* tick), and the check for a pending IRQ and the IRQ exception entry come only
\* after all three; the notification is the one of the state the GPU entered.
C1_PeripheralOrder ==
    last.op \in PeripheralOps =>
        LET o == last.order IN
        /\ {"timers", "gpu", "dma"} \subseteq Tags(o)
        /\ \A i, j \in 1 .. Len(o) : i < j => Rank(o[i]) < Rank(o[j])
        /\ "notify_hblank" \in Tags(o) <=>
              (gpu.state = "HBlank" /\ last.prev_state # "HBlank")
        /\ "notify_vblank" \in Tags(o) <=>
              (gpu.state = "VBlank" /\ last.prev_state # "VBlank")
        /\ last.irq_entered => last.irqs \subseteq intc.interrupt_flags

\* a step in which the GPU entered HBlank, DMA channel 0 transferred on the
\* notification and raised its IRQ, and the CPU entered the IRQ exception
C1_Witness ==
    /\ last.op = "step"
    /\ last.order = <<"timers", "gpu", "notify_hblank", "dma", "irq_check", "irq_exception">>
    /\ last.done[0] >= 1
    /\ get_irq(dmac.channels[0]) \in last.irqs
    /\ last.irq_entered

\* C2: every IRQ bit raised during a peripheral step is among the request
\* flags of the interrupt controller after that step, whatever the CPU's
\* IRQ-mask bit is.
C2_RaisedIrqsFolded ==
    last.op \in PeripheralOps => last.irqs \subseteq intc.interrupt_flags

\* C3: when frame() returns it has called backend.render exactly once,
\* current_scanline is 0 and the GPU is not in VBlank; inside frame() render
\* has been called at most once, and exactly once in its second loop.
C3_FrameRendersOnce ==
    /\ last.op = "frame_return" =>
          /\ frame_renders = 1
          /\ gpu.current_scanline = 0
          /\ gpu.state # "VBlank"
    /\ pc = "frame_draw" => frame_renders = 0
    /\ pc = "frame_vblank" => frame_renders = 1

\* a frame() that has returned after running through a whole VBlank
C3_Witness ==
    /\ last.op = "frame_return"
    /\ pc = "idle"
    /\ frame_renders = 1
    /\ fed > CYCLES_VBLANK

\* C4: backend.render is called exactly once for each entry of the GPU into
\* VBlank: never twice since the latest entry, and once step() or frame() has
\* left the GPU in VBlank the render of that entry has been made.
C4_RenderOncePerVBlank ==
    /\ vblank_renders <= 1
    /\ (pc = "idle" /\ gpu.state = "VBlank") => vblank_renders = 1

\* C5: fed one cycle at a time from (HDraw, scanline 0, cycles 0), the GPU is
\* in HBlank when exactly 960 cycles have been fed, and in HDraw on scanline 1
\* when exactly 960 + 272 cycles have been fed.
C5_HDraw960HBlank272 ==
    /\ fed = CYCLES_HDRAW => gpu.state = "HBlank"
    /\ fed = CYCLES_HDRAW + CYCLES_HBLANK =>
          (gpu.state = "HDraw" /\ gpu.current_scanline = 1)

\* C6: the GPU state changes only along HDraw -> HBlank, HBlank -> HDraw,
\* HBlank -> VBlank and VBlank -> HDraw; VBlank is never entered from HDraw.
C6_StateTransitions ==
    (last.op = "gpu_step" /\ gpu.state # last.prev_state) =>
        <<last.prev_state, gpu.state>> \in
            {<<"HDraw", "HBlank">>, <<"HBlank", "HDraw">>,
             <<"HBlank", "VBlank">>, <<"VBlank", "HDraw">>}

\* C7: current_scanline changes only at an HBlank timeout, by +1, and at a
\* VBlank timeout, to 0; a step that starts in HDraw leaves it unchanged.
C7_LineChanges ==
    (last.op = "gpu_step" /\ gpu.current_scanline # last.prev_line) =>
        \/ last.prev_state = "HBlank" /\ gpu.current_scanline = last.prev_line + 1
        \/ last.prev_state = "VBlank" /\ gpu.current_scanline = 0

\* C8: fed one cycle at a time from (HDraw, scanline 0, cycles 0), the GPU
\* comes back from VBlank to (HDraw, scanline 0) for the first time when
\* exactly 228 * 1232 = 280,896 cycles have been fed.
C8_FramePeriod ==
    (last.op = "gpu_step" /\ last.prev_state = "VBlank" /\ gpu.state = "HDraw") =>
        (gpu.current_scanline = 0 /\ fed = 228 * CYCLES_SCANLINE)

\* C9: current_scanline is within 0..227 and the GPU is in VBlank exactly when
\* current_scanline >= 160.
C9_LineRange ==
    /\ gpu.current_scanline \in 0 .. 227
    /\ gpu.state = "VBlank" <=> gpu.current_scanline >= DISPLAY_HEIGHT

\* the GPU has been through a VBlank and draws again
C9_Witness ==
    /\ last.op = "gpu_step"
    /\ last.prev_state = "VBlank"
    /\ gpu.state = "HDraw"
    /\ gpu.current_scanline = 0

\* C10: for every channel, once a transfer with the repeat flag 0 has completed
\* the enable bit is 0, and the channel completes no transfer on any trigger
\* until a control write enables it again.
C10_NonRepeatDisables ==
    \A ch \in Channels :
        /\ spent[ch] => ~is_enabled(dmac.channels[ch].ctrl)
        /\ extra[ch] = 0

\* a channel programmed for V-blank whose non-repeat transfer has completed is
\* left alone by a later V-blank notification
C10_Witness ==
    \E ch \in Channels :
        /\ spent[ch]
        /\ timing(dmac.channels[ch].ctrl) = 1
        /\ dmac.channels[ch].wc > 0
        /\ last.op = "notify_vblank"
        /\ last.done[ch] = 0

\* C11: a channel enabled with timing 0 (and repeat 0) by a control write made
\* at any value of the controller's cycle counter transfers at the first
\* DmaController::step at which at least 2 cycles have elapsed since the write
\* (start_cycles latches the counter at the write), and not before: after a
\* step such a channel is not left enabled with 2 or more cycles elapsed, and a
\* channel that transferred had 2 or more cycles elapsed.
C11_ImmediateAfterTwoCycles ==
    last.op = "dma_step" =>
        \A ch \in Channels :
            LET c == dmac.channels[ch] IN
            (timing(c.ctrl) = 0 /\ ~repeat(c.ctrl)) =>
                /\ is_enabled(c.ctrl) => dmac.cycles - c.start_cycles < 2
                /\ last.done[ch] >= 1 => dmac.cycles - c.start_cycles >= 2

\* C12: a channel with timing 1 transfers only in a V-blank notification, a
\* channel with timing 2 only in an H-blank notification, and
\* DmaController::step transfers only on channels with timing 0.
C12_TimingSelectsTrigger ==
    \A ch \in Channels :
        last.done[ch] >= 1 =>
            /\ last.op = "dma_step" => timing(dmac.channels[ch].ctrl) = 0
            /\ timing(dmac.channels[ch].ctrl) = 1 => last.op = "notify_vblank"
            /\ timing(dmac.channels[ch].ctrl) = 2 => last.op = "notify_hblank"

\* the address of unit i of a transfer that starts at base: the adjustment adj
\* advances it per unit by +w (0, and 3 for a destination), -w (1) or 0 (2)
UnitAddr(base, adj, w, i) ==
    base + i * (CASE adj \in {0, 3} -> w [] adj = 1 -> 0 - w [] adj = 2 -> 0)

\* the halfwords of the unit of size w at address a
UnitCells(a, w) == {a + k : k \in {0, 2} \cap 0 .. (w - 1)}

\* the memory m after the units i .. n-1 of the transfer programmed in channel
\* p: unit i is read at its source address and written at its destination
RECURSIVE Copied(_, _, _, _, _)
Copied(m, p, w, i, n) ==
    IF i >= n THEN m
    ELSE LET s == UnitAddr(p.src, src_adj(p.ctrl), w, i)
             d == UnitAddr(p.dst, dst_adj(p.ctrl), w, i)
         IN  Copied([a \in MemAddrs |-> IF a \in UnitCells(d, w) THEN m[s + (a - d)] ELSE m[a]],
                    p, w, i + 1, n)

\* C13: a completed transfer of channel 0 with word count n and unit size w (4
\* with the 32-bit flag, else 2) leaves the memory as n unit copies make it,
\* unit i read at the i-th source address and written at the i-th destination
\* address; no halfword outside the n destination units is changed, and the
\* source register is unchanged when the source adjustment is 2.
C13_TransferCopiesUnits ==
    (last.op = "xfer" /\ last.done[0] = 1) =>
        LET p == last.pre.dmac.channels[0]
            w == IF is_32bit(p.ctrl) THEN 4 ELSE 2
            n == p.wc
            dsts == UNION {UnitCells(UnitAddr(p.dst, dst_adj(p.ctrl), w, i), w) : i \in 0 .. (n - 1)}
        IN  /\ mem = Copied(last.pre.mem, p, w, 0, n)
            /\ \A a \in MemAddrs \ dsts : mem[a] = last.pre.mem[a]
            /\ src_adj(p.ctrl) = 2 => dmac.channels[0].src = p.src

\* a 32-bit transfer of three units, source incrementing and destination
\* decrementing, over the filled memory
C13_Witness ==
    /\ last.op = "xfer"
    /\ last.done[0] = 1
    /\ last.pre.dmac.channels[0].wc = 3
    /\ is_32bit(dmac.channels[0].ctrl)
    /\ src_adj(dmac.channels[0].ctrl) = 0
    /\ dst_adj(dmac.channels[0].ctrl) = 1
    /\ mem # last.pre.mem
    /\ mem[28] = 9 /\ mem[30] = 11 /\ mem[20] = 17 /\ mem[22] = 19

DmaOps == {"dma_step", "notify_vblank", "notify_hblank"}

\* C14: the IRQ bits a trigger of the DMA controller adds are exactly the
\* sources 8 + id of the channels that completed a transfer in it and have the
\* IRQ bit set in their control word: no other source, and none without a
\* completed transfer.
C14_IrqOnCompletion ==
    last.op \in DmaOps =>
        last.irqs = {8 + ch : ch \in {x \in Channels : /\ last.done[x] >= 1
                                                      /\ BitSet(dmac.channels[x].ctrl, 14)}}

\* one V-blank notification in which channel 3 completed a transfer and raised
\* source 11 and channel 0 had nothing to do
C14_Witness ==
    /\ last.op = "notify_vblank"
    /\ last.done[3] = 1
    /\ last.done[0] = 0
    /\ last.irqs = {11}

\* C15: after a completed transfer of channel 0 with the repeat flag 1 the
\* channel is still enabled and its next trigger transfers again; its
\* destination register equals the pre-transfer value with destination
\* adjustment 3 (reload) or 2 (fixed), and is the address advanced by the n
\* units with adjustment 0 or 1 (so, for n >= 1, different from the
\* pre-transfer value).
C15_RepeatRearms ==
    (last.op = "xfer" /\ last.done[0] = 1 /\ BitSet(last.pre.dmac.channels[0].ctrl, 9)) =>
        LET p == last.pre.dmac.channels[0]
            c == dmac.channels[0]
            w == IF is_32bit(p.ctrl) THEN 4 ELSE 2
        IN  /\ BitSet(c.ctrl, 15)
            /\ notify_vblank(dmac, mem).done[0] = 1
            /\ dst_adj(p.ctrl) \in {2, 3} => c.dst = p.dst
            /\ dst_adj(p.ctrl) \in {0, 1} => c.dst = UnitAddr(p.dst, dst_adj(p.ctrl), w, p.wc)
            /\ p.wc >= 1 => (c.dst = p.dst <=> dst_adj(p.ctrl) \in {2, 3})

\* a repeat channel with destination increment and reload has transferred
\* three units: the destination register is back at its pre-transfer value
C15_Witness ==
    /\ last.op = "xfer"
    /\ last.done[0] = 1
    /\ repeat(dmac.channels[0].ctrl)
    /\ dst_adj(dmac.channels[0].ctrl) = 3
    /\ last.pre.dmac.channels[0].wc = 3
    /\ dmac.channels[0].dst = 28
    /\ mem[32] # last.pre.mem[32]

\* the readable and writable registers without side effects among the
\* addresses written: DISPCNT, BG0CNT, BG3CNT, BLDCNT, BLDALPHA, TM0CNT_H,
\* TM3CNT_H, IE, WAITCNT
PlainRegs == {0, 8, 14, 80, 82, 258, 270, 512, 516}

\* C16: after write_16 of X to a readable and writable register without side
\* effects, read_16 of the same address returns X, whatever the register held
\* before.
C16_WriteThenRead ==
    (last.op = "write_16" /\ last.addr \in PlainRegs) =>
        read_16(IoState(gpu, intc, ioregs), last.addr) = last.value

\* C17: a write_16 of V to IF clears exactly the request bits that are 1 in V:
\* bit i is set afterwards exactly if it was set before and is 0 in V (so a
\* write of 0 changes nothing and no write sets a bit), and read_16 of IF
\* shows it.
C17_IfAcknowledge ==
    (last.op = "write_16" /\ last.addr = 514) =>
        /\ \A i \in 0 .. 15 :
              i \in intc.interrupt_flags <=>
                  (i \in last.pre.intc.interrupt_flags /\ (last.value \div (2 ^ i)) % 2 = 0)
        /\ last.value = 0 => intc.interrupt_flags = last.pre.intc.interrupt_flags
        /\ intc.interrupt_flags \subseteq last.pre.intc.interrupt_flags
        /\ read_16(IoState(gpu, intc, ioregs), 514) =
              BitsValue(intc.interrupt_flags, 15)

\* requests 0, 3 and 8 were pending and IF was written with 0x0009: request 8
\* is left
C17_Witness ==
    /\ last.op = "write_16"
    /\ last.addr = 514
    /\ last.value = 9
    /\ last.pre.intc.interrupt_flags = {0, 3, 8}
    /\ intc.interrupt_flags = {8}

\* C18: write_8 of a byte to an even or odd address changes only that byte of
\* the containing 16-bit register: read_8 of the address returns the byte, the
\* other byte of the register and every other register read as before.
C18_ByteWrite ==
    last.op = "write_8" =>
        LET now == IoState(gpu, intc, ioregs)
            reg == last.addr - (last.addr % 2)
            v == read_16(now, reg)
            old == read_16(last.pre, reg)
        IN  /\ (IF last.addr % 2 = 0 THEN v % 256 ELSE v \div 256) = last.value
            /\ (IF last.addr % 2 = 0 THEN v \div 256 ELSE v % 256) =
               (IF last.addr % 2 = 0 THEN old \div 256 ELSE old % 256)
            /\ \A a \in (IoAddrs16 \cup {REG_VCOUNT}) \ {reg} :
                  read_16(now, a) = read_16(last.pre, a)
            /\ read_8(now, last.addr) = last.value

\* the format of ArmInstruction::decode that a format of lut.rs stands for
FormatOfLut(f) ==
    CASE f = "BX" -> "BranchExchange"
      [] f = "B_BL" -> "BranchLink"
      [] f = "DP" -> "DataProcessing"
      [] f = "SWI" -> "SoftwareInterrupt"
      [] f = "LDR_STR" -> "SingleDataTransfer"
      [] f = "LDR_STR_HS_IMM" -> "HalfwordDataTransferImmediateOffset"
      [] f = "LDR_STR_HS_REG" -> "HalfwordDataTransferRegOffset"
      [] f = "LDM_STM" -> "BlockDataTransfer"
      [] f = "MRS" -> "MoveFromStatus"
      [] f = "MSR_REG" -> "MoveToStatus"
      [] f = "MSR_FLAGS" -> "MoveToFlags"
      [] f = "MUL_MLA" -> "Multiply"
      [] f = "MULL_MLAL" -> "MultiplyLong"
      [] f = "SWP" -> "SingleDataSwap"
      [] OTHER -> f

\* C19: for every word W the format stored in ARM_LUT at arm_insn_hash(W) is
\* the format the full-word classifier decode(W) assigns.
C19_LutAgreesWithDecode ==
    decoded.fmt # "none" => FormatOfLut(decoded.lut_fmt) = decoded.fmt

\* the ordered mask / expected table of the decoder, first match wins
DecoderTable ==
    << Row("BranchExchange", Word32(\h0FFF, \hFFF0), Word32(\h012F, \hFF10)),
       Row("Undefined", Word32(\hE000, \h0010), Word32(\h0600, \h0000)),
       Row("SingleDataSwap", Word32(\h0FB0, \h0FF0), Word32(\h0100, \h0090)),
       Row("Multiply", Word32(\h0FC0, \h00F0), Word32(\h0000, \h0090)),
       Row("MultiplyLong", Word32(\h0F80, \h00F0), Word32(\h0080, \h0090)),
       Row("MoveFromStatus", Word32(\h0FBF, \h0FFF), Word32(\h010F, \h0000)),
       Row("MoveToStatus", Word32(\h0FBF, \hFFF0), Word32(\h0129, \hF000)),
       Row("MoveToFlags", Word32(\h0DBF, \hF000), Word32(\h0128, \hF000)),
       Row("SingleDataTransfer", Word32(\h0C00, \h0000), Word32(\h0400, \h0000)),
       Row("HalfwordDataTransferRegOffset", Word32(\h0E40, \h0F90), Word32(\h0000, \h0090)),
       Row("HalfwordDataTransferImmediateOffset", Word32(\h0E40, \h0090), Word32(\h0040, \h0090)),
       Row("BlockDataTransfer", Word32(\h0E00, \h0000), Word32(\h0800, \h0000)),
       Row("BranchLink", Word32(\h0E00, \h0000), Word32(\h0A00, \h0000)),
       Row("SoftwareInterrupt", Word32(\h0F00, \h0000), Word32(\h0F00, \h0000)),
       Row("DataProcessing", Word32(\h0C00, \h0000), Word32(\h0000, \h0000)) >>

\* the rows of the table a word matches, in order
Matching(raw) ==
    {k \in 1 .. Len(DecoderTable) : (DecoderTable[k].mask \cap raw) = DecoderTable[k].expected}

\* C20: decode returns the format of the first row of the ordered table that
\* the word matches, Undefined when no row matches, and the same format for
\* every value of the condition bits 31..28.
C20_DecodeFirstMatch ==
    decoded.fmt # "none" =>
        /\ Matching(decoded.raw) = {} => decoded.fmt = "Undefined"
        /\ Matching(decoded.raw) # {} =>
              \E k \in Matching(decoded.raw) :
                  /\ \A j \in Matching(decoded.raw) : k <= j
                  /\ decoded.fmt = DecoderTable[k].fmt
        /\ \A cond \in SUBSET (28 .. 31) :
              decode((decoded.raw \ (28 .. 31)) \cup cond) = decoded.fmt

\* SMULL (0xE0C00090, bit 22 set) is decoded as MultiplyLong although the
\* later row HalfwordTransferImm matches it too
C20_Witness ==
    /\ decoded.raw = Word32(\hE0C0, \h0090)
    /\ decoded.fmt = "MultiplyLong"
    /\ Cardinality(Matching(decoded.raw)) >= 2

---------------------------------------------------------------------------
(* Instruction fields and dispatch *)

\* the 24-bit field of a word as a signed number
SignedField24(raw) ==
    IF 23 \in raw THEN bit_range(raw, 23, 0) - 16777216 ELSE bit_range(raw, 23, 0)

\* C21: for a BranchLink word at address pc, branch_offset is the field
\* insn[23:0] sign-extended and shifted left by 2, link_flag is bit 24 and
\* the target is pc + 8 + branch_offset.
C21_BranchOffset ==
    executed.op = "branch" =>
        /\ executed.fmt = "BranchLink"
        /\ executed.offset = 4 * SignedField24(executed.raw)
        /\ executed.link = (24 \in executed.raw)
        /\ executed.target = executed.addr + 8 + 4 * SignedField24(executed.raw)

\* 0xEBFFFFFA at 0x20: link, offset -24, target 0x10
C21_Witness ==
    /\ executed.op = "branch"
    /\ executed.raw = Word32(\hEBFF, \hFFFA)
    /\ executed.addr = 32
    /\ executed.link
    /\ executed.offset = -24
    /\ executed.target = 16

\* C22: obtaining the condition of any word, bits 31..28 = 1111 included,
\* gives the condition or a decode error; the host is not aborted.
C22_CondNeverAborts ==
    executed.op = "cond" =>
        /\ core.host = "running"
        /\ executed.ok => executed.cond = bit_range(executed.raw, 31, 28)

\* C23: dispatching a word whose ARM_LUT format is Undefined does not abort
\* the host.
C23_UndefinedNeverAborts ==
    (executed.op = "dispatch" /\ executed.fmt = "Undefined") => core.host = "running"

---------------------------------------------------------------------------
(* Barrel shifter *)

\* C24: a register-specified shift whose shift register is R15 ends in the
\* IllegalInstruction error on both paths that evaluate the operand
\* (register_shift and get_barrel_shifted_value), the host keeps running and
\* the carry_out of the shifter is what it was.
C24_ShiftByPcIsIllegal ==
    [][(/\ executed'.op \in {"register_shift", "get_barrel_shifted_value"}
        /\ executed'.by = "ByRegister"
        /\ executed'.rs = REG_PC)
       => (/\ executed'.err = "IllegalInstruction"
           /\ core'.host = "running"
           /\ core'.bs.carry_out = core.bs.carry_out)]_vars

\* the latest operation was a barrel_shift_op of the kind `shift`
ShiftedBy(shift) == executed.op = "barrel_shift_op" /\ executed.shift = shift

\* bit i of the result is bit i - n of the value (a shift to the left by n)
IsShl(result, v, n) ==
    \A i \in 0 .. 31 : I32Bit(result, i) <=> (i >= n /\ I32Bit(v, i - n))

\* bit i of the result is bit i + n of the value (an unsigned shift to the
\* right by n)
IsLsr(result, v, n) ==
    \A i \in 0 .. 31 : I32Bit(result, i) <=> (i + n <= 31 /\ I32Bit(v, i + n))

\* C25: LSL by 0 returns the value and carry_in; by 1..31 the value shifted
\* left with carry_out bit 32-n; by 32 zero with carry_out bit 0; by more
\* than 32 zero with carry_out 0.
C25_Lsl ==
    ShiftedBy("LSL") =>
        /\ executed.amount = 0 =>
              executed.result = executed.val /\ core.bs.carry_out = executed.carry_in
        /\ executed.amount \in 1 .. 31 =>
              /\ IsShl(executed.result, executed.val, executed.amount)
              /\ core.bs.carry_out = I32Bit(executed.val, 32 - executed.amount)
        /\ executed.amount = 32 =>
              executed.result = 0 /\ core.bs.carry_out = I32Bit(executed.val, 0)
        /\ executed.amount > 32 => executed.result = 0 /\ ~core.bs.carry_out

\* LSL of 0x8000_0001 by 32 gave 0 with carry_out 1 although carry_in was 0
C25_Witness ==
    /\ ShiftedBy("LSL")
    /\ executed.val = -2147483647
    /\ executed.amount = 32
    /\ ~executed.carry_in
    /\ executed.result = 0
    /\ core.bs.carry_out

\* C26: LSR by 0 in immediate form and by 32 in either form gives zero with
\* carry_out bit 31; by 1..31 the value shifted right (unsigned) with carry_out
\* bit n-1; by more than 32 zero with carry_out 0.
C26_Lsr ==
    ShiftedBy("LSR") =>
        /\ ((executed.amount = 0 /\ executed.immediate) \/ executed.amount = 32) =>
              executed.result = 0 /\ core.bs.carry_out = I32Bit(executed.val, 31)
        /\ executed.amount \in 1 .. 31 =>
              /\ IsLsr(executed.result, executed.val, executed.amount)
              /\ core.bs.carry_out = I32Bit(executed.val, executed.amount - 1)
        /\ executed.amount > 32 => executed.result = 0 /\ ~core.bs.carry_out

\* C27: LSR, ASR and ROR by 0 in register form return the value, and the
\* carry_out of the shifter afterwards is carry_in.
C27_RegisterZeroKeepsCarryIn ==
    (/\ executed.op = "barrel_shift_op"
     /\ executed.shift \in {"LSR", "ASR", "ROR"}
     /\ ~executed.immediate
     /\ executed.amount = 0)
    => (executed.result = executed.val /\ core.bs.carry_out = executed.carry_in)

\* C28: ROR by 0 in immediate form is RRX (carry_in enters bit 31, carry_out
\* is bit 0); by a non-zero multiple of 32 the value with carry_out bit 31; by
\* any other amount the value rotated right by n mod 32 with carry_out bit 31
\* of the result.
C28_Ror ==
    ShiftedBy("ROR") =>
        /\ (executed.amount = 0 /\ executed.immediate) =>
              /\ I32Bit(executed.result, 31) = executed.carry_in
              /\ \A i \in 0 .. 30 : I32Bit(executed.result, i) = I32Bit(executed.val, i + 1)
              /\ core.bs.carry_out = I32Bit(executed.val, 0)
        /\ (executed.amount # 0 /\ executed.amount % 32 = 0) =>
              /\ executed.result = executed.val
              /\ core.bs.carry_out = I32Bit(executed.val, 31)
        /\ executed.amount % 32 # 0 =>
              /\ \A i \in 0 .. 31 :
                    I32Bit(executed.result, i)
                        = I32Bit(executed.val, (i + executed.amount) % 32)
              /\ core.bs.carry_out = I32Bit(executed.result, 31)

\* ROR of 0x7FFF_FFFF by 64 gave the value back with carry_out 0, and RRX of
\* 0x8000_0001 is reachable too
C28_Witness ==
    /\ ShiftedBy("ROR")
    /\ executed.val = 2147483647
    /\ executed.amount = 64
    /\ executed.result = 2147483647
    /\ ~core.bs.carry_out

---------------------------------------------------------------------------
(* ALU flags *)

\* a >= b as unsigned 32-bit numbers: they are equal, or the highest bit in
\* which they differ is set in a
UGe(a, b) ==
    \/ a = b
    \/ \E i \in BitsOfI32(a) \ BitsOfI32(b) :
          \A j \in BitsOfI32(b) \ BitsOfI32(a) : j < i

\* the exact difference a - b is not an i32
SubOverflows(a, b) ==
    \/ a >= 0 /\ b < 0 /\ a > 2147483647 + b
    \/ a < 0 /\ b >= 0 /\ a < ((-2147483647) - 1) + b

\* the exact sum a + b is not an i32
AddOverflows(a, b) ==
    \/ a > 0 /\ b > 0 /\ a > 2147483647 - b
    \/ a < 0 /\ b < 0 /\ a < ((-2147483647) - 1) - b

\* C29: after SUB and CMP with flag update (RSB with the operands reversed)
\* C is 1 exactly when a >= b as unsigned numbers, and V is the signed
\* overflow of a - b.
C29_SubCarryIsNotBorrow ==
    executed.op = "alu_flags" =>
        /\ executed.opcode \in {"SUB", "CMP"} =>
              /\ core.cpsr.C = UGe(executed.op1, executed.op2)
              /\ core.cpsr.V = SubOverflows(executed.op1, executed.op2)
        /\ executed.opcode = "RSB" =>
              /\ core.cpsr.C = UGe(executed.op2, executed.op1)
              /\ core.cpsr.V = SubOverflows(executed.op2, executed.op1)

\* the carry into bit i of the sum a + b, computed bit by bit
RECURSIVE CarryInto(_, _, _)
CarryInto(a, b, i) ==
    IF i = 0 THEN FALSE
    ELSE \/ I32Bit(a, i - 1) /\ I32Bit(b, i - 1)
         \/ (I32Bit(a, i - 1) \/ I32Bit(b, i - 1)) /\ CarryInto(a, b, i - 1)

\* bit i of a + b mod 2^32
SumBit(a, b, i) == (I32Bit(a, i) # I32Bit(b, i)) # CarryInto(a, b, i)

\* C30: after ADD and CMN with flag update the result is a + b mod 2^32, C is
\* the unsigned overflow, V the signed overflow, N bit 31 of the result and Z
\* tells a zero result; CMN, TST, TEQ and CMP return no result, ADD does.
C30_AddFlags ==
    executed.op = "alu_flags" =>
        /\ executed.opcode \in {"ADD", "CMN"} =>
              /\ \A i \in 0 .. 31 :
                    I32Bit(executed.result, i) = SumBit(executed.op1, executed.op2, i)
              /\ core.cpsr.C = CarryInto(executed.op1, executed.op2, 32)
              /\ core.cpsr.V = AddOverflows(executed.op1, executed.op2)
              /\ core.cpsr.N = I32Bit(executed.result, 31)
              /\ core.cpsr.Z = (executed.result = 0)
        /\ executed.opcode = "ADD" => executed.wrote
        /\ executed.opcode \in {"TST", "TEQ", "CMP", "CMN"} => ~executed.wrote

\* ADD 0x7FFF_FFFF + 1 gave 0x8000_0000 with N=1, Z=0, C=0, V=1
C30_Witness ==
    /\ executed.op = "alu_flags"
    /\ executed.opcode = "ADD"
    /\ executed.op1 = 2147483647
    /\ executed.op2 = 1
    /\ executed.result = (-2147483647) - 1
    /\ executed.wrote
    /\ core.cpsr = [N |-> TRUE, Z |-> FALSE, C |-> FALSE, V |-> TRUE]

\* the carry into bit i of the sum a + b + cin, computed bit by bit
RECURSIVE CarryInto3(_, _, _, _)
CarryInto3(a, b, cin, i) ==
    IF i = 0 THEN cin
    ELSE \/ I32Bit(a, i - 1) /\ I32Bit(b, i - 1)
         \/ (I32Bit(a, i - 1) \/ I32Bit(b, i - 1)) /\ CarryInto3(a, b, cin, i - 1)

\* the bitwise complement of a 32-bit value
Not32(v) == I32OfBits((0 .. 31) \ BitsOfI32(v))

\* the C and V flags of a + b + cin as the ARM7TDMI adder produces them
AdderFlags(a, b, cin) ==
    [C |-> CarryInto3(a, b, cin, 32),
     V |-> CarryInto3(a, b, cin, 31) # CarryInto3(a, b, cin, 32)]

\* the C and V flags of a step of alu_flags from carry_in to the record e
ThreeOperandFlags(e, carry_in) ==
    CASE e.opcode = "ADC" -> AdderFlags(e.op1, e.op2, carry_in)
      [] e.opcode = "SBC" -> AdderFlags(e.op1, Not32(e.op2), carry_in)
      [] e.opcode = "RSC" -> AdderFlags(e.op2, Not32(e.op1), carry_in)

\* C31: a step of alu_flags with ADC, SBC or RSC leaves in C and V the flags of
\* the three-operand operation: the carry out and signed overflow of
\* op1 + op2 + carry_in for ADC, and of minuend + NOT subtrahend + carry_in
\* (no borrow of minuend - subtrahend - (1 - carry_in)) for SBC and RSC, where
\* carry_in is the C flag before the step.
C31_CarryOfThreeOperands ==
    [][(executed'.op = "alu_flags" /\ executed'.opcode \in {"ADC", "SBC", "RSC"}) =>
          /\ core'.cpsr.C = ThreeOperandFlags(executed', core.cpsr.C).C
          /\ core'.cpsr.V = ThreeOperandFlags(executed', core.cpsr.C).V]_vars

---------------------------------------------------------------------------
(* Scanlines, notifications and DISPSTAT *)

\* the latest Gpu::step took the HDraw timeout
HDrawTimedOut == last.op = "gpu_step" /\ last.prev_state = "HDraw" /\ gpu.state # "HDraw"

\* C32: Gpu::step renders a scanline only at an HDraw timeout, the line it
\* renders is the line that was being drawn (the scanline before the step), a
\* visible line 0..159, and the HDraw timeout of a visible line renders exactly
\* that one line; so each visible line is rendered once per frame and no line
\* >= 160 ever is.
C32_RendersLineJustDrawn ==
    last.op = "gpu_step" =>
        /\ \A i \in 1 .. Len(last.rendered) :
              /\ HDrawTimedOut
              /\ last.rendered[i] = last.prev_line
              /\ last.rendered[i] < DISPLAY_HEIGHT
        /\ (HDrawTimedOut /\ last.prev_line < DISPLAY_HEIGHT) => Len(last.rendered) = 1

\* the number of times the latest peripheral step ran the stage `tag`
StageCount(tag) == Cardinality({i \in 1 .. Len(last.order) : last.order[i] = tag})

\* C33: in a peripheral step the DMA controller gets one hblank notification
\* exactly when the GPU took an HDraw timeout in that step, and one vblank
\* notification exactly when the GPU entered VBlank in that step.
C33_NotifyPerTimeout ==
    last.op \in {"step", "frame_iter"} =>
        /\ StageCount("notify_hblank") =
              (IF last.prev_state = "HDraw" /\ gpu.state # "HDraw" THEN 1 ELSE 0)
        /\ StageCount("notify_vblank") =
              (IF last.prev_state # "VBlank" /\ gpu.state = "VBlank" THEN 1 ELSE 0)

\* C34: after a Gpu::step the VCount-match bit of DISPSTAT tells whether the
\* scanline the step started on equals the VCount setting, for every setting
\* (0 included), and the step raised the VCount IRQ exactly when they are equal
\* and the VCount IRQ is enabled.
C34_VCountMatch ==
    last.op = "gpu_step" =>
        /\ get_vcount(gpu.dispstat) = (vcount_setting(gpu.dispstat) = last.prev_line)
        /\ (IRQ_LCD_VCounterMatch \in last.irqs) =
              (vcount_irq_enable(gpu.dispstat)
                 /\ vcount_setting(gpu.dispstat) = last.prev_line)

\* the same for the settings that are not 0
VCountMatchNonZero ==
    (last.op = "gpu_step" /\ vcount_setting(gpu.dispstat) # 0) =>
        /\ get_vcount(gpu.dispstat) = (vcount_setting(gpu.dispstat) = last.prev_line)
        /\ (IRQ_LCD_VCounterMatch \in last.irqs) =
              (vcount_irq_enable(gpu.dispstat)
                 /\ vcount_setting(gpu.dispstat) = last.prev_line)

---------------------------------------------------------------------------
(* One transfer per trigger *)

\* C36: in one peripheral step no DMA channel transfers more than once, and a
\* repeat channel timed to H-blank or V-blank transfers only in a step that
\* delivers its notification.
C36_OneTransferPerStep ==
    last.op \in {"step", "frame_iter"} =>
        \A ch \in Channels :
            /\ last.done[ch] <= 1
            /\ (last.done[ch] > 0 /\ repeat(dmac.channels[ch].ctrl)
                   /\ timing(dmac.channels[ch].ctrl) = 2) =>
                  StageCount("notify_hblank") = 1
            /\ (last.done[ch] > 0 /\ repeat(dmac.channels[ch].ctrl)
                   /\ timing(dmac.channels[ch].ctrl) = 1) =>
                  StageCount("notify_vblank") = 1

---------------------------------------------------------------------------
(* Register writes and the shared peripheral container *)

\* C37: a register write through IoRegs completes without a second exclusive
\* borrow of the peripheral container, so the host is not stopped by it; this
\* includes the writes of the DMA address, count and control registers.
C37_WriteCompletes ==
    last.op \in {"write_16", "write_8"} => pc # "panicked"

---------------------------------------------------------------------------
(* GPU lag and the termination of frame() *)

\* the duration of a GPU state in cycles
StateCycles(state) ==
    CASE state = "HDraw" -> CYCLES_HDRAW
      [] state = "HBlank" -> CYCLES_HBLANK
      [] state = "VBlank" -> CYCLES_VBLANK

\* C38: after every Gpu::step the cycles accumulated in the current state are
\* below the duration of that state, whatever the number of cycles of the step.
C38_NoLag ==
    last.op = "gpu_step" => gpu.cycles < StateCycles(gpu.state)

\* C39: with CPU steps of at least one cycle a frame() that was entered leaves
\* its first loop (the GPU enters VBlank) and then its second loop (the GPU
\* leaves VBlank) and returns.
C39_FrameTerminates ==
    /\ (pc = "frame_draw") ~> (pc = "frame_vblank")
    /\ (pc = "frame_vblank") ~> (pc = "idle")

\* a frame() entered while the GPU was in VBlank has returned
C39_Witness ==
    /\ pc = "idle"
    /\ last.op = "frame_return"
    /\ frame_renders = 1
    /\ gpu.state = "HDraw"
    /\ gpu.current_scanline = 0
    /\ fed > MaxFrameStart

====
